---- MODULE Spec2Model ----
(***************************************************************************)
(* A model of the in-memory metadata store S3Storage                       *)
(* (src/api/script/storage/s3-storage.ts) and of the NameResolver           *)
(* (src/api/script/storage/storage.ts).                                    *)
(*                                                                         *)
(* Reading notes.                                                          *)
(*  - JavaScript objects used as maps are functions whose DOMAIN is the    *)
(*    set of own keys.  A lookup of a key every object inherits            *)
(*    ("__proto__", "constructor") yields a truthy value that has none of  *)
(*    the fields the code reads; "prototype" is not inherited.             *)
(*  - The static calls written JsonStorage.getRejectedPromise are read as  *)
(*    the class's own getRejectedPromise (s3-storage.ts 707-709): the      *)
(*    promise is rejected with a storage error carrying the code.          *)
(*  - An exception thrown by the code (a TypeError on a property of        *)
(*    undefined, throw new Error) is the result code "TypeError"/"Error".  *)
(*  - addAccount (49-68) goes through the Prisma client and never writes   *)
(*    accounts, emailToAccountMap or accountToAppsMap.  The operations on  *)
(*    apps read those maps (129, 140, 242), so the model starts from a     *)
(*    store whose account tables hold a fixed population.  addAccessKey    *)
(*    creates accountToAccessKeysMap[accountId] on first use (520-524), so *)
(*    that map starts empty.                                               *)
(*  - A handler runs to completion in one step, except where it hands a    *)
(*    callback to a promise it has to wait for: removeApp (186-219) runs   *)
(*    up to q.all(promises) in one step and its .then callback in a later  *)
(*    one; the callbacks waiting to run are kept in pending.  The actions  *)
(*    addCollaborator, removeCollaborator and transferApp are the calls    *)
(*    whose callback runs before anything else is called; ownershipCall    *)
(*    and ownershipCallback are the same calls with the gap between        *)
(*    getApp and its .then callback left open.                             *)
(***************************************************************************)
EXTENDS Integers, Sequences, FiniteSets, TLC

VARIABLES
  NextIdNumber,                 \* S3Storage.NextIdNumber
  accounts,                     \* accountId -> Account
  apps,                         \* appId -> App
  deployments,                  \* deploymentId -> Deployment (with packageHistory)
  accessKeys,                   \* accessKeyId -> AccessKey
  accountToAppsMap,             \* accountId -> sequence of appIds
  appToAccountMap,              \* appId -> accountId of the creator
  emailToAccountMap,            \* lower-cased email -> accountId
  appToDeploymentsMap,          \* appId -> sequence of deploymentIds
  deploymentToAppMap,           \* deploymentId -> appId
  deploymentKeyToDeploymentMap, \* deployment key -> deploymentId
  accountToAccessKeysMap,       \* accountId -> sequence of accessKeyIds
  accessKeyToAccountMap,        \* accessKeyId -> accountId
  accessKeyNameToAccountIdMap,  \* access key name -> [accountId, expires]
  ret,                          \* the last call and how its promise settled
  pending,                      \* the callbacks of calls in flight that have not run yet, oldest first
  blobs,                        \* blobId -> the data of the blob
  blobServer,                   \* _blobServerPromise: "unset", or the state of the server it holds
  xferLog,                      \* history: per app, the successful transferApp calls in a row
  commitLog,                    \* history: per deployment, the commitPackage calls since its history was empty
  held                          \* the deployment a caller got from getDeployment and still holds: <<>> or <<deployment>>

appVars == <<NextIdNumber, apps, accountToAppsMap, appToAccountMap, appToDeploymentsMap>>
accountVars == <<accounts, emailToAccountMap>>
deploymentVars == <<deployments, deploymentToAppMap, deploymentKeyToDeploymentMap>>
accessKeyVars == <<accessKeys, accountToAccessKeysMap, accessKeyToAccountMap, accessKeyNameToAccountIdMap>>
blobVars == <<blobs, blobServer>>
histVars == <<xferLog, commitLog>>
vars == <<appVars, accountVars, deploymentVars, accessKeyVars, blobVars, ret, pending, histVars, held>>

(***************************************************************************)
(* Bounds and input alphabets.                                             *)
(***************************************************************************)
MaxApps == 1
MaxNamedApps == 2
MaxDeployments == 1
MaxHistory == 3
MaxIds == 3
MaxPending == 2
MaxCommits == 2

\* The registered accounts: id -> email as stored on the account (original casing).
RegisteredEmail == [acc1 |-> "a@x", acc2 |-> "B@x", acc3 |-> "c@x"]
AccountIds == DOMAIN RegisteredEmail
NoAccount == "acc9"
AccountIdInputs == AccountIds \cup {NoAccount}

PollutionKeys == {"__proto__", "constructor", "prototype"}
EmailInputs == {"a@x", "B@x", "b@x", "c@x", "z@x"} \cup PollutionKeys
AppNames == {"foo", "bar"}

\* the kinds of settled promise
Resolved == "OK"

(***************************************************************************)
(* Helpers of storage.ts and of the JavaScript runtime.                    *)
(***************************************************************************)
\* String.prototype.toLowerCase on the email alphabet.
toLowerCase(s) == CASE s = "B@x" -> "b@x"
                    [] OTHER -> s

\* Keys that every plain object inherits from Object.prototype with a truthy value.
InheritedKeys == {"__proto__", "constructor"}

\* obj[key] is truthy: an own entry, or an inherited member.
Truthy(obj, key) == key \in DOMAIN obj \/ key \in InheritedKeys

\* a denylist that misses one key
isPrototypePollutionKeyNoConstructor(key) == key \in {"__proto__", "prototype"}

isPrototypePollutionKey(key) == key \in {"__proto__", "constructor", "prototype"}

\* "id_" + NextIdNumber
Id(n) == "id_" \o ToString(n)

newId == Id(NextIdNumber)

AppIdInputs == {Id(n) : n \in 0..MaxApps}

Put(map, key, val) == [k \in DOMAIN map \cup {key} |-> IF k = key THEN val ELSE map[k]]

Delete(map, key) == [k \in DOMAIN map \ {key} |-> map[k]]

\* Array.prototype.indexOf, 1-based; 0 when absent (JavaScript's -1).
indexOf(seq, x) == IF \E i \in 1..Len(seq) : seq[i] = x
                   THEN CHOOSE i \in 1..Len(seq) : seq[i] = x /\ \A j \in 1..(i-1) : seq[j] # x
                   ELSE 0

\* seq.splice(i, 1) for a 1-based position i of seq.
RemoveAt(seq, i) == [j \in 1..(Len(seq) - 1) |-> IF j < i THEN seq[j] ELSE seq[j + 1]]

isOwner(list, email) ==
  /\ Truthy(list, email)
  /\ email \in DOMAIN list
  /\ list[email].permission = "Owner"

isCollaborator(list, email) ==
  /\ Truthy(list, email)
  /\ email \in DOMAIN list
  /\ list[email].permission = "Collaborator"

addIsCurrentAccountProperty(app, accountId) ==
  [app EXCEPT !.collaborators =
     [e \in DOMAIN @ |-> IF @[e].accountId = accountId
                         THEN [isCurrentAccount |-> TRUE] @@ @[e]
                         ELSE @[e]]]

removeIsCurrentAccountProperty(app) ==
  [app EXCEPT !.collaborators =
     [e \in DOMAIN @ |-> IF "isCurrentAccount" \in DOMAIN @[e] /\ @[e].isCurrentAccount
                         THEN [f \in DOMAIN @[e] \ {"isCurrentAccount"} |-> @[e][f]]
                         ELSE @[e]]]

\* merge(original, updates): every property of updates is assigned onto original.
merge(original, updates) ==
  [f \in DOMAIN original \cup DOMAIN updates |->
     IF f \in DOMAIN updates THEN updates[f] ELSE original[f]]

\* accountToAppsMap after addAppPointer(accountId, appId)
addAppPointer(map, accountId, appId) ==
  IF indexOf(map[accountId], appId) = 0
  THEN [map EXCEPT ![accountId] = Append(@, appId)]
  ELSE map

\* a removal that forgets the account's list
removeAppPointerKeepingList(map, accountId, appId) == map

\* accountToAppsMap after removeAppPointer(accountId, appId)
removeAppPointer(map, accountId, appId) ==
  IF indexOf(map[accountId], appId) > 0
  THEN [map EXCEPT ![accountId] = RemoveAt(@, indexOf(@, appId))]
  ELSE map

\* getApp's guard: both ids are known
getAppFound(accountId, appId) == accountId \in DOMAIN accounts /\ appId \in DOMAIN apps

\* the value getApp resolves with
getAppValue(accountId, appId) == addIsCurrentAccountProperty(apps[appId], accountId)

\* apps after updateApp(accountId, app) passed its guard
updateAppStore(app) == [apps EXCEPT ![app.id] = merge(@, removeIsCurrentAccountProperty(app))]

\* a settled promise: the operation, the error code (or Resolved) and the value
Settled(op, code, value) == [op |-> op, code |-> code, value |-> value]

Rejected(op, code) == Settled(op, code, <<>>)

(***************************************************************************)
(* Initial state.                                                          *)
(***************************************************************************)
Init ==
  /\ NextIdNumber = 0
  /\ accounts = [id \in AccountIds |-> [id |-> id, email |-> RegisteredEmail[id]]]
  /\ emailToAccountMap = [e \in {toLowerCase(RegisteredEmail[id]) : id \in AccountIds} |->
                            CHOOSE id \in AccountIds : toLowerCase(RegisteredEmail[id]) = e]
  /\ accountToAppsMap = [id \in AccountIds |-> <<>>]
  /\ apps = <<>>
  /\ appToAccountMap = <<>>
  /\ appToDeploymentsMap = <<>>
  /\ deployments = <<>>
  /\ deploymentToAppMap = <<>>
  /\ deploymentKeyToDeploymentMap = <<>>
  /\ accessKeys = <<>>
  /\ accountToAccessKeysMap = <<>>
  /\ accessKeyToAccountMap = <<>>
  /\ accessKeyNameToAccountIdMap = <<>>
  /\ ret = Settled("none", Resolved, <<>>)
  /\ pending = <<>>
  /\ blobs = <<>>
  /\ blobServer = "unset"
  /\ xferLog = <<>>
  /\ commitLog = <<>>
  /\ held = <<>>

(***************************************************************************)
(* Apps and collaborators.                                                 *)
(***************************************************************************)
addApp(accountId, name) ==
  /\ IF accountId \notin DOMAIN accounts
     THEN /\ ret' = Rejected("addApp", "NotFound")
          /\ UNCHANGED <<appVars, histVars>>
     ELSE LET app == [id |-> newId, name |-> name,
                      collaborators |-> (accounts[accountId].email :>
                                           [accountId |-> accountId, permission |-> "Owner"])]
          IN /\ NextIdNumber' = NextIdNumber + 1
             /\ accountToAppsMap' = addAppPointer(accountToAppsMap, accountId, app.id)
             /\ appToDeploymentsMap' = IF app.id \in DOMAIN appToDeploymentsMap
                                       THEN appToDeploymentsMap
                                       ELSE Put(appToDeploymentsMap, app.id, <<>>)
             /\ appToAccountMap' = Put(appToAccountMap, app.id, accountId)
             /\ apps' = Put(apps, app.id, app)
             /\ xferLog' = Put(xferLog, app.id, <<>>)
             /\ UNCHANGED commitLog
             /\ ret' = Settled("addApp", Resolved, app)
  /\ UNCHANGED <<pending, blobVars, accountVars, held, deploymentVars, accessKeyVars>>

\* transferApp after getApp resolved and the target account was found
transferAppFound(accountId, appId, target) ==
  LET app == getAppValue(accountId, appId)
      requesterEmail == accounts[accountId].email
      email == accounts[target].email
      demoted == [app.collaborators EXCEPT ![requesterEmail].permission = "Collaborator"]
  IN IF isOwner(app.collaborators, email)
     THEN /\ ret' = Rejected("transferApp", "AlreadyExists")
          /\ UNCHANGED appVars
     ELSE IF requesterEmail \notin DOMAIN app.collaborators
     THEN \* app.collaborators[requesterEmail] is undefined: the assignment throws
          /\ ret' = Rejected("transferApp", "TypeError")
          /\ UNCHANGED appVars
     ELSE /\ IF isCollaborator(demoted, email)
             THEN /\ apps' = updateAppStore([app EXCEPT !.collaborators =
                                               [demoted EXCEPT ![email].permission = "Owner"]])
                  /\ UNCHANGED accountToAppsMap
             ELSE /\ apps' = updateAppStore([app EXCEPT !.collaborators =
                                               Put(demoted, email, [permission |-> "Owner", accountId |-> target])])
                  /\ accountToAppsMap' = addAppPointer(accountToAppsMap, target, app.id)
          /\ ret' = Settled("transferApp", Resolved, <<>>)
          /\ UNCHANGED <<NextIdNumber, appToAccountMap, appToDeploymentsMap>>

transferApp(accountId, appId, email) ==
  /\ IF isPrototypePollutionKey(email)
     THEN /\ ret' = Rejected("transferApp", "Invalid")
          /\ UNCHANGED appVars
     ELSE IF ~getAppFound(accountId, appId)
     THEN /\ ret' = Rejected("transferApp", "NotFound")
          /\ UNCHANGED appVars
     ELSE IF ~Truthy(emailToAccountMap, toLowerCase(email))
     THEN /\ ret' = Rejected("transferApp", "NotFound")
          /\ UNCHANGED appVars
     ELSE IF toLowerCase(email) \notin DOMAIN emailToAccountMap
     THEN \* an inherited member is no account id: this.accounts[...] is undefined
          /\ ret' = Rejected("transferApp", "TypeError")
          /\ UNCHANGED appVars
     ELSE transferAppFound(accountId, appId, emailToAccountMap[toLowerCase(email)])
  /\ UNCHANGED <<pending, blobVars, accountVars, held, deploymentVars, accessKeyVars, commitLog>>

addCollaborator(accountId, appId, email) ==
  /\ IF isPrototypePollutionKey(email)
     THEN /\ ret' = Rejected("addCollaborator", "Invalid")
          /\ UNCHANGED appVars
     ELSE IF ~getAppFound(accountId, appId)
     THEN /\ ret' = Rejected("addCollaborator", "NotFound")
          /\ UNCHANGED appVars
     ELSE LET app == getAppValue(accountId, appId) IN
          IF isCollaborator(app.collaborators, email) \/ isOwner(app.collaborators, email)
          THEN /\ ret' = Rejected("addCollaborator", "AlreadyExists")
               /\ UNCHANGED appVars
          ELSE IF ~Truthy(emailToAccountMap, toLowerCase(email))
          THEN /\ ret' = Rejected("addCollaborator", "NotFound")
               /\ UNCHANGED appVars
          ELSE IF toLowerCase(email) \notin DOMAIN emailToAccountMap
          THEN /\ ret' = Rejected("addCollaborator", "TypeError")
               /\ UNCHANGED appVars
          ELSE LET target == emailToAccountMap[toLowerCase(email)]
                   stored == accounts[target].email
               IN /\ apps' = updateAppStore([app EXCEPT !.collaborators =
                                 Put(@, stored, [accountId |-> target, permission |-> "Collaborator"])])
                  /\ accountToAppsMap' = addAppPointer(accountToAppsMap, target, app.id)
                  /\ ret' = Settled("addCollaborator", Resolved, <<>>)
                  /\ UNCHANGED <<NextIdNumber, appToAccountMap, appToDeploymentsMap>>
  /\ UNCHANGED <<pending, blobVars, accountVars, held, deploymentVars, accessKeyVars, commitLog>>

removeCollaborator(accountId, appId, email) ==
  /\ IF ~getAppFound(accountId, appId)
     THEN /\ ret' = Rejected("removeCollaborator", "NotFound")
          /\ UNCHANGED appVars
     ELSE LET app == getAppValue(accountId, appId) IN
          IF isOwner(app.collaborators, email)
          THEN /\ ret' = Rejected("removeCollaborator", "AlreadyExists")
               /\ UNCHANGED appVars
          ELSE IF ~isCollaborator(app.collaborators, email) \/ ~Truthy(emailToAccountMap, toLowerCase(email))
          THEN /\ ret' = Rejected("removeCollaborator", "NotFound")
               /\ UNCHANGED appVars
          ELSE IF toLowerCase(email) \notin DOMAIN emailToAccountMap
          THEN \* accountToAppsMap[...] is undefined in removeAppPointer
               /\ ret' = Rejected("removeCollaborator", "TypeError")
               /\ UNCHANGED appVars
          ELSE LET target == emailToAccountMap[toLowerCase(email)]
               IN /\ accountToAppsMap' = removeAppPointer(accountToAppsMap, target, appId)
                  /\ apps' = updateAppStore([app EXCEPT !.collaborators = Delete(@, email)])
                  /\ ret' = Settled("removeCollaborator", Resolved, <<>>)
                  /\ UNCHANGED <<NextIdNumber, appToAccountMap, appToDeploymentsMap>>
  /\ UNCHANGED <<pending, blobVars, accountVars, held, deploymentVars, accessKeyVars, commitLog>>

(***************************************************************************)
(* Reading apps, and the NameResolver.                                     *)
(***************************************************************************)
\* getApps finds the account's list
getAppsFound(accountId) == accountId \in DOMAIN accountToAppsMap

\* the value getApps resolves with: the account's apps, in list order
getAppsValue(accountId) ==
  [k \in 1..Len(accountToAppsMap[accountId]) |->
     addIsCurrentAccountProperty(apps[accountToAppsMap[accountId][k]], accountId)]

getAppsResult(accountId) ==
  IF getAppsFound(accountId)
  THEN Settled("getApps", Resolved, getAppsValue(accountId))
  ELSE Rejected("getApps", "NotFound")

getApps(accountId) ==
  /\ ret' = getAppsResult(accountId)
  /\ UNCHANGED <<pending, blobVars, appVars, accountVars, held, deploymentVars, accessKeyVars, histVars>>

\* an ownership test that forgets whose entry it reads
isOwnedByAnyUser(app) ==
  \E email \in DOMAIN app.collaborators : app.collaborators[email].permission = "Owner"

isOwnedByCurrentUser(app) ==
  \E email \in DOMAIN app.collaborators :
     /\ "isCurrentAccount" \in DOMAIN app.collaborators[email]
     /\ app.collaborators[email].isCurrentAccount
     /\ app.collaborators[email].permission = "Owner"

\* String.prototype.split(":") of a name given as its pieces, each a run of
\* characters without a colon or the colon itself.
RECURSIVE split(_)
split(pieces) ==
  IF pieces = <<>> THEN <<"">>
  ELSE LET rest == split(Tail(pieces))
       IN IF Head(pieces) = ":"
          THEN <<"">> \o rest
          ELSE <<Head(pieces) \o Head(rest)>> \o Tail(rest)

Null == [null |-> TRUE]

\* the first element of seq that satisfies Test, or Null
FirstThat(seq, Test(_)) ==
  IF \E k \in 1..Len(seq) : Test(seq[k])
  THEN seq[CHOOSE k \in 1..Len(seq) : Test(seq[k]) /\ \A j \in 1..(k-1) : ~Test(seq[j])]
  ELSE Null

\* a parse that takes the first and the last component of any qualified name
findAppByNameLastComponent(list, displayName) ==
  LET components == split(displayName)
      rawName == components[Len(components)]
      ownerEmail == IF Len(components) >= 2 THEN components[1] ELSE ""
      NameIs(app) == app.name = rawName
      candidates == SelectSeq(list, NameIs)
      OwnedBy(app) == /\ Truthy(app.collaborators, ownerEmail)
                      /\ ownerEmail \in DOMAIN app.collaborators
                      /\ app.collaborators[ownerEmail].permission = "Owner"
  IN IF ownerEmail # "" THEN FirstThat(candidates, OwnedBy)
     ELSE IF Len(candidates) = 1 THEN candidates[1]
     ELSE FirstThat(candidates, isOwnedByCurrentUser)

findAppByName(list, displayName) ==
  LET components == split(displayName)
      rawName == IF Len(components) = 1 THEN components[1] ELSE components[2]
      ownerEmail == IF Len(components) = 2 THEN components[1] ELSE ""
      NameIs(app) == app.name = rawName
      candidates == SelectSeq(list, NameIs)
      OwnedBy(app) == /\ Truthy(app.collaborators, ownerEmail)
                      /\ ownerEmail \in DOMAIN app.collaborators
                      /\ app.collaborators[ownerEmail].permission = "Owner"
  IN IF Len(components) > 2 THEN Null
     ELSE IF ownerEmail # "" THEN FirstThat(candidates, OwnedBy)
     ELSE IF Len(candidates) = 1 THEN candidates[1]
     ELSE FirstThat(candidates, isOwnedByCurrentUser)

\* findByName on a list of apps (the 'app' overload is chosen by items[0].collaborators)
findByNameApps(items, name) ==
  IF Len(items) = 0 THEN Null ELSE findAppByName(items, name)

\* storageError(errorCode, message): the message is optional
storageError(errorCode) == [code |-> errorCode]

storageErrorWith(errorCode, message) == [code |-> errorCode, message |-> message]

\* an override that forgets to look at the code
errorMessageOverrideAnyCode(code, message, error) == Put(error, "message", message)

\* the handler errorMessageOverride(code, message) applied to error; it throws what it returns
errorMessageOverride(code, message, error) ==
  IF error.code = code THEN Put(error, "message", message) ELSE error

\* the characters of a name given as its pieces
RECURSIVE Join(_)
Join(pieces) == IF pieces = <<>> THEN "" ELSE Head(pieces) \o Join(Tail(pieces))

\* `${kind} "${name}" does not exist.`
DoesNotExist(kind, name) == kind \o " \"" \o name \o "\" does not exist."

\* What a call of the underlying store hands to the resolver: the items it
\* resolved with, or the error it was rejected with.
Items(items) == [ok |-> TRUE, items |-> items]

Failure(error) == [ok |-> FALSE, error |-> error]

\* the outcome of a call of this store: its rejections carry no message
StoreOutcome(settled) ==
  IF settled.code = Resolved THEN Items(settled.value) ELSE Failure(storageError(settled.code))

\* a promise rejected with error: the code, and what else the error carries
RejectedWith(op, error) == Settled(op, error.code, Delete(error, "code"))

\* resolveApp on the outcome of getApps: .then(find or throw NotFound).catch(override)
resolveAppOn(outcome, name) ==
  LET override(error) == errorMessageOverride("NotFound", DoesNotExist("App", Join(name)), error)
  IN IF ~outcome.ok THEN RejectedWith("resolveApp", override(outcome.error))
     ELSE LET app == findByNameApps(outcome.items, name)
          IN IF app = Null THEN RejectedWith("resolveApp", override(storageError("NotFound")))
             ELSE Settled("resolveApp", Resolved, app)

\* how the promise of resolveApp(accountId, name) settles
resolveAppResult(accountId, name) == resolveAppOn(StoreOutcome(getAppsResult(accountId)), name)

resolveApp(accountId, name) ==
  /\ ret' = resolveAppResult(accountId, name)
  /\ UNCHANGED <<pending, blobVars, appVars, accountVars, held, deploymentVars, accessKeyVars, histVars>>

(***************************************************************************)
(* Deployments and their package history.  A nullable number (rollout) is  *)
(* a sequence of length at most one: <<>> is null.  An optional field that *)
(* is not set is not in the record's DOMAIN.                               *)
(***************************************************************************)
NullRollout == <<>>

\* a label that counts from the length before the push
LabelBeforePush(n) == "v" \o ToString(n - 1)

\* "v" + n
Label(n) == "v" \o ToString(n)

\* arr.splice(arr.indexOf(x), 1): a position of -1 counts from the end
spliceIndexOf(arr, x) ==
  IF indexOf(arr, x) > 0 THEN RemoveAt(arr, indexOf(arr, x))
  ELSE IF Len(arr) = 0 THEN arr
  ELSE SubSeq(arr, 1, Len(arr) - 1)

\* the guard shared by getDeployment, removeDeployment, updateDeployment and commitPackage
deploymentChainFound(accountId, appId, deploymentId) ==
  /\ accountId \in DOMAIN accounts
  /\ appId \in DOMAIN apps
  /\ deploymentId \in DOMAIN deployments

addDeployment(accountId, appId, name, key) ==
  /\ IF accountId \notin DOMAIN accounts \/ appId \notin DOMAIN apps
     THEN /\ ret' = Rejected("addDeployment", "NotFound")
          /\ UNCHANGED <<NextIdNumber, appToDeploymentsMap, deploymentVars, commitLog>>
     ELSE LET deployment == [id |-> newId, name |-> name, key |-> key, packageHistory |-> <<>>]
          IN /\ NextIdNumber' = NextIdNumber + 1
             /\ appToDeploymentsMap' =
                  IF indexOf(appToDeploymentsMap[appId], deployment.id) = 0
                  THEN [appToDeploymentsMap EXCEPT ![appId] = Append(@, deployment.id)]
                  ELSE appToDeploymentsMap
             /\ deploymentToAppMap' = Put(deploymentToAppMap, deployment.id, appId)
             /\ deployments' = Put(deployments, deployment.id, deployment)
             /\ deploymentKeyToDeploymentMap' = Put(deploymentKeyToDeploymentMap, key, deployment.id)
             /\ commitLog' = Put(commitLog, deployment.id, [clean |-> TRUE, given |-> <<>>, returned |-> <<>>])
             /\ ret' = Settled("addDeployment", Resolved, deployment.id)
  /\ UNCHANGED <<pending, blobVars, apps, accountToAppsMap, appToAccountMap, accountVars, held, accessKeyVars, xferLog>>

removeDeployment(accountId, appId, deploymentId) ==
  /\ IF ~deploymentChainFound(accountId, appId, deploymentId)
     THEN /\ ret' = Rejected("removeDeployment", "NotFound")
          /\ UNCHANGED <<appToDeploymentsMap, deploymentVars>>
     ELSE IF appId # deploymentToAppMap[deploymentId]
     THEN /\ ret' = Rejected("removeDeployment", "Error")
          /\ UNCHANGED <<appToDeploymentsMap, deploymentVars>>
     ELSE /\ deploymentKeyToDeploymentMap' = Delete(deploymentKeyToDeploymentMap, deployments[deploymentId].key)
          /\ deployments' = Delete(deployments, deploymentId)
          /\ deploymentToAppMap' = Delete(deploymentToAppMap, deploymentId)
          /\ appToDeploymentsMap' = [appToDeploymentsMap EXCEPT ![appId] = spliceIndexOf(@, deploymentId)]
          /\ ret' = Settled("removeDeployment", Resolved, <<>>)
  /\ UNCHANGED <<pending, blobVars, NextIdNumber, apps, accountToAppsMap, appToAccountMap, accountVars, held, accessKeyVars, histVars>>

\* getDeployments finds the app's list for a known account
getDeploymentsFound(accountId, appId) ==
  accountId \in DOMAIN accounts /\ appId \in DOMAIN appToDeploymentsMap

getDeploymentsResult(accountId, appId) ==
  IF getDeploymentsFound(accountId, appId)
  THEN Settled("getDeployments", Resolved,
               [k \in 1..Len(appToDeploymentsMap[appId]) |-> deployments[appToDeploymentsMap[appId][k]]])
  ELSE Rejected("getDeployments", "NotFound")

getDeployments(accountId, appId) ==
  /\ ret' = getDeploymentsResult(accountId, appId)
  /\ UNCHANGED <<pending, blobVars, appVars, accountVars, held, deploymentVars, accessKeyVars, histVars>>

\* the history after lastPackage.rollout = null
unsetLastRollout(history) ==
  IF Len(history) = 0 THEN history
  ELSE [history EXCEPT ![Len(history)] = Put(@, "rollout", NullRollout)]

\* the deployment after commitPackage stored appPackage
committed(deployment, appPackage) ==
  LET labelled == Put(appPackage, "label", Label(Len(deployment.packageHistory) + 1))
  IN Put([deployment EXCEPT !.packageHistory = Append(unsetLastRollout(@), labelled)],
         "package", labelled)

commitPackage(accountId, appId, deploymentId, appPackage) ==
  /\ IF ~deploymentChainFound(accountId, appId, deploymentId)
     THEN /\ ret' = Rejected("commitPackage", "NotFound")
          /\ UNCHANGED <<deployments, commitLog>>
     ELSE /\ Len(deployments[deploymentId].packageHistory) < MaxHistory
          /\ deployments' = [deployments EXCEPT ![deploymentId] = committed(@, appPackage)]
          /\ ret' = Settled("commitPackage", Resolved, deployments'[deploymentId].package)
          /\ commitLog' = IF commitLog[deploymentId].clean
                          THEN [commitLog EXCEPT ![deploymentId].given = Append(@, appPackage),
                                                 ![deploymentId].returned = Append(@, ret'.value)]
                          ELSE commitLog
  /\ UNCHANGED <<pending, blobVars, appVars, accountVars, held, deploymentToAppMap, deploymentKeyToDeploymentMap, accessKeyVars, xferLog>>

clearPackageHistory(accountId, appId, deploymentId) ==
  /\ IF deploymentId \notin DOMAIN deployments
     THEN /\ ret' = Rejected("clearPackageHistory", "NotFound")
          /\ UNCHANGED <<deployments, commitLog>>
     ELSE /\ deployments' = [deployments EXCEPT ![deploymentId] =
                               [Delete(@, "package") EXCEPT !.packageHistory = <<>>]]
          /\ ret' = Settled("clearPackageHistory", Resolved, <<>>)
          /\ commitLog' = [commitLog EXCEPT ![deploymentId] = [clean |-> TRUE, given |-> <<>>, returned |-> <<>>]]
  /\ UNCHANGED <<pending, blobVars, appVars, accountVars, held, deploymentToAppMap, deploymentKeyToDeploymentMap, accessKeyVars, xferLog>>

\* The history argument: an array, or no array at all (null, undefined).
NoHistory == [defined |-> FALSE]

Array(items) == [defined |-> TRUE, items |-> items]

\* a test that forgets the length
historyIsEmptyAcceptingEmptyArray(history) == ~history.defined

\* !history || !history.length
historyIsEmpty(history) == ~history.defined \/ Len(history.items) = 0

\* the deployment after updatePackageHistory stored history
withHistory(deployment, history) ==
  IF Len(history) = 0
  THEN [Delete(deployment, "package") EXCEPT !.packageHistory = history]
  ELSE Put([deployment EXCEPT !.packageHistory = history], "package", history[Len(history)])

updatePackageHistory(accountId, appId, deploymentId, history) ==
  /\ IF historyIsEmpty(history)
     THEN /\ ret' = Rejected("updatePackageHistory", "Invalid")
          /\ UNCHANGED <<deployments, commitLog>>
     ELSE IF deploymentId \notin DOMAIN deployments
     THEN /\ ret' = Rejected("updatePackageHistory", "NotFound")
          /\ UNCHANGED <<deployments, commitLog>>
     ELSE /\ deployments' = [deployments EXCEPT ![deploymentId] = withHistory(@, history.items)]
          /\ ret' = Settled("updatePackageHistory", Resolved, <<>>)
          /\ commitLog' = [commitLog EXCEPT ![deploymentId] = [clean |-> FALSE, given |-> <<>>, returned |-> <<>>]]
  /\ UNCHANGED <<pending, blobVars, appVars, accountVars, held, deploymentToAppMap, deploymentKeyToDeploymentMap, accessKeyVars, xferLog>>

(***************************************************************************)
(* Access keys.                                                            *)
(***************************************************************************)
\* addAccessKey's `account` is the pending query of the Prisma client, never
\* awaited: an object, so `!account` is false for every accountId.
addAccessKeyAccountMissing(accountId) == FALSE

addAccessKey(accountId, accessKey) ==
  /\ IF addAccessKeyAccountMissing(accountId)
     THEN /\ ret' = Rejected("addAccessKey", "NotFound")
          /\ UNCHANGED accessKeyVars
     ELSE IF accountId \in DOMAIN accountToAccessKeysMap
             /\ indexOf(accountToAccessKeysMap[accountId], accessKey.id) # 0
     THEN /\ ret' = Settled("addAccessKey", Resolved, "")
          /\ UNCHANGED accessKeyVars
     ELSE /\ accountToAccessKeysMap' =
               IF accountId \in DOMAIN accountToAccessKeysMap
               THEN [accountToAccessKeysMap EXCEPT ![accountId] = Append(@, accessKey.id)]
               ELSE Put(accountToAccessKeysMap, accountId, <<accessKey.id>>)
          /\ accessKeyToAccountMap' = Put(accessKeyToAccountMap, accessKey.id, accountId)
          /\ accessKeys' = Put(accessKeys, accessKey.id, accessKey)
          /\ accessKeyNameToAccountIdMap' =
               Put(accessKeyNameToAccountIdMap, accessKey.name,
                   [accountId |-> accountId, expires |-> accessKey.expires])
          /\ ret' = Settled("addAccessKey", Resolved, accessKey.id)
  /\ UNCHANGED <<pending, blobVars, appVars, accountVars, held, deploymentVars, histVars>>

removeAccessKey(accountId, accessKeyId) ==
  /\ IF accessKeyId \in DOMAIN accessKeyToAccountMap /\ accessKeyToAccountMap[accessKeyId] = accountId
     THEN /\ accessKeyNameToAccountIdMap' = Delete(accessKeyNameToAccountIdMap, accessKeys[accessKeyId].name)
          /\ accessKeys' = Delete(accessKeys, accessKeyId)
          /\ accessKeyToAccountMap' = Delete(accessKeyToAccountMap, accessKeyId)
          /\ accountToAccessKeysMap' =
               IF indexOf(accountToAccessKeysMap[accountId], accessKeyId) > 0
               THEN [accountToAccessKeysMap EXCEPT ![accountId] = RemoveAt(@, indexOf(@, accessKeyId))]
               ELSE accountToAccessKeysMap
          /\ ret' = Settled("removeAccessKey", Resolved, <<>>)
     ELSE /\ ret' = Rejected("removeAccessKey", "NotFound")
          /\ UNCHANGED accessKeyVars
  /\ UNCHANGED <<pending, blobVars, appVars, accountVars, held, deploymentVars, histVars>>

\* getAccessKeys finds the account's list
getAccessKeysFound(accountId) == accountId \in DOMAIN accountToAccessKeysMap

getAccessKeysResult(accountId) ==
  IF getAccessKeysFound(accountId)
  THEN Settled("getAccessKeys", Resolved,
               [k \in 1..Len(accountToAccessKeysMap[accountId]) |->
                  IF accountToAccessKeysMap[accountId][k] \in DOMAIN accessKeys
                  THEN accessKeys[accountToAccessKeysMap[accountId][k]]
                  ELSE Null])
  ELSE Rejected("getAccessKeys", "NotFound")

getAccessKeys(accountId) ==
  /\ ret' = getAccessKeysResult(accountId)
  /\ UNCHANGED <<pending, blobVars, appVars, accountVars, held, deploymentVars, accessKeyVars, histVars>>

(***************************************************************************)
(* Spec: the app and collaborator operations on one store, with every      *)
(* input of the alphabets.                                                 *)
(***************************************************************************)
AddAppStep ==
  \E a \in AccountIdInputs, n \in AppNames :
     Cardinality(DOMAIN apps) < MaxApps /\ addApp(a, n)

TransferAppStep ==
  \E a \in AccountIdInputs, i \in AppIdInputs, e \in EmailInputs :
     transferApp(a, i, e) /\ UNCHANGED xferLog

AddCollaboratorStep ==
  \E a \in AccountIdInputs, i \in AppIdInputs, e \in EmailInputs :
     addCollaborator(a, i, e) /\ UNCHANGED xferLog

RemoveCollaboratorStep ==
  \E a \in AccountIdInputs, i \in AppIdInputs, e \in EmailInputs :
     removeCollaborator(a, i, e) /\ UNCHANGED xferLog

Next == AddAppStep \/ TransferAppStep \/ AddCollaboratorStep \/ RemoveCollaboratorStep

Spec == Init /\ [][Next]_vars

(***************************************************************************)
(* SpecResolve: apps that share a name, owned and shared among the         *)
(* registered accounts, and resolveApp on them.                            *)
(***************************************************************************)
StoredEmails == {RegisteredEmail[a] : a \in AccountIds}

DisplayNames ==
  {<<"foo">>, <<"bar">>, <<":", "foo">>, <<"a@x", ":", "c@x", ":", "foo">>}
    \cup {<<e, ":", "foo">> : e \in StoredEmails \cup {"b@x"}}

AddNamedAppStep ==
  \E a \in AccountIds :
     Cardinality(DOMAIN apps) < MaxNamedApps /\ addApp(a, "foo")

ShareAppStep ==
  \E a \in AccountIds, i \in DOMAIN apps, e \in StoredEmails \cup {"b@x"} :
     addCollaborator(a, i, e) /\ UNCHANGED xferLog

HandOverAppStep ==
  \E a \in AccountIds, i \in DOMAIN apps, e \in StoredEmails :
     transferApp(a, i, e) /\ UNCHANGED xferLog

ResolveAppStep == \E a \in AccountIdInputs, n \in DisplayNames : resolveApp(a, n)

NextResolve == AddNamedAppStep \/ ShareAppStep \/ HandOverAppStep \/ ResolveAppStep

SpecResolve == Init /\ [][NextResolve]_vars

(***************************************************************************)
(* SpecPackages: one deployment and the operations on its package history. *)
(***************************************************************************)
Hashes == {"h1", "h2"}
Rollouts == {NullRollout, <<50>>}

\* packages handed to commitPackage: the label is generated, one input carries a stale one
PackageInputs ==
  [packageHash : Hashes, rollout : Rollouts]
    \cup {[packageHash |-> "h1", rollout |-> <<50>>, label |-> "v9"]}

\* histories handed to updatePackageHistory: none, empty, or one or two packages
\* labelled by position, with any rollouts
HistoryPackages(label) == [packageHash : Hashes, rollout : Rollouts, label : {label}]

HistoryInputs ==
  {NoHistory, Array(<<>>)}
    \cup {Array(<<p>>) : p \in HistoryPackages("v1")}
    \cup {Array(<<p, q>>) : p \in HistoryPackages("v1"), q \in HistoryPackages("v2")}

OwnerInputs == {"acc1", NoAccount}
DeploymentIdInputs == {Id(n) : n \in 0..(MaxApps + MaxDeployments)}
DeploymentKeys == {"key1", "key2"}

AddOneAppStep == Cardinality(DOMAIN apps) < MaxApps /\ addApp("acc1", "foo")

AddDeploymentStep ==
  \E a \in OwnerInputs, i \in AppIdInputs, k \in DeploymentKeys :
     /\ Cardinality(DOMAIN deployments) < MaxDeployments
     /\ NextIdNumber < MaxIds
     /\ addDeployment(a, i, "Production", k)

CommitPackageStep ==
  \E a \in OwnerInputs, i \in AppIdInputs, d \in DeploymentIdInputs, p \in PackageInputs :
     commitPackage(a, i, d, p)

ClearPackageHistoryStep ==
  \E a \in OwnerInputs, i \in AppIdInputs, d \in DeploymentIdInputs :
     clearPackageHistory(a, i, d)

UpdatePackageHistoryStep ==
  \E a \in OwnerInputs, i \in AppIdInputs, d \in DeploymentIdInputs, h \in HistoryInputs :
     updatePackageHistory(a, i, d, h)

NextPackages ==
  \/ AddOneAppStep
  \/ AddDeploymentStep
  \/ CommitPackageStep
  \/ ClearPackageHistoryStep
  \/ UpdatePackageHistoryStep

SpecPackages == Init /\ [][NextPackages]_vars

(***************************************************************************)
(* SpecCollections: the collection getters beside the operations that add  *)
(* and remove the children they list.                                      *)
(***************************************************************************)
AccessKeyInputs == [id : {"k1", "k2"}, name : {"n1", "n2"}, expires : {5}]

AddAnyAppStep ==
  \E a \in AccountIdInputs :
     Cardinality(DOMAIN apps) < MaxApps /\ addApp(a, "foo")

RemoveDeploymentStep ==
  \E a \in OwnerInputs, i \in AppIdInputs, d \in DeploymentIdInputs : removeDeployment(a, i, d)

AddAccessKeyStep == \E a \in OwnerInputs, k \in AccessKeyInputs : addAccessKey(a, k)

RemoveAccessKeyStep == \E a \in OwnerInputs, k \in {"k1", "k2"} : removeAccessKey(a, k)

GetAppsStep == \E a \in AccountIdInputs : getApps(a)

GetDeploymentsStep == \E a \in AccountIdInputs, i \in AppIdInputs : getDeployments(a, i)

GetAccessKeysStep == \E a \in AccountIdInputs : getAccessKeys(a)

NextCollections ==
  \/ AddAnyAppStep
  \/ AddDeploymentStep
  \/ RemoveDeploymentStep
  \/ AddAccessKeyStep
  \/ RemoveAccessKeyStep
  \/ GetAppsStep
  \/ GetDeploymentsStep
  \/ GetAccessKeysStep

SpecCollections == Init /\ [][NextCollections]_vars

(***************************************************************************)
(* SpecTransfer: one app handed from account to account, with the          *)
(* successful transfers logged.                                            *)
(***************************************************************************)
\* the accounts that hold an entry with the given permission on the app
Holders(app, permission) ==
  {app.collaborators[e].accountId :
     e \in {x \in DOMAIN app.collaborators : app.collaborators[x].permission = permission}}

LastTwo(log) == IF Len(log) > 2 THEN SubSeq(log, Len(log) - 1, Len(log)) ELSE log

TransferAndLogStep ==
  \E a \in AccountIdInputs, i \in AppIdInputs, e \in EmailInputs :
     /\ transferApp(a, i, e)
     /\ xferLog' = IF ret'.code = Resolved
                   THEN [xferLog EXCEPT ![i] =
                           LastTwo(Append(@, [ownersBefore |-> Holders(apps[i], "Owner"),
                                              to |-> emailToAccountMap[toLowerCase(e)]]))]
                   ELSE xferLog

NextTransfer == AddAppStep \/ TransferAndLogStep

SpecTransfer == Init /\ [][NextTransfer]_vars

(***************************************************************************)
(* Reading one app.                                                        *)
(***************************************************************************)
\* how the promise of getApp(accountId, appId) settles
getAppResult(accountId, appId) ==
  IF ~getAppFound(accountId, appId)
  THEN Rejected("getApp", "NotFound")
  ELSE Settled("getApp", Resolved, getAppValue(accountId, appId))

getApp(accountId, appId) ==
  /\ ret' = getAppResult(accountId, appId)
  /\ UNCHANGED <<pending, blobVars, appVars, accountVars, held, deploymentVars, accessKeyVars, histVars>>

\* getCollaborators: getApp, then the collaborators of the app it resolved with
getCollaboratorsResult(accountId, appId) ==
  IF getAppResult(accountId, appId).code # Resolved
  THEN Rejected("getCollaborators", getAppResult(accountId, appId).code)
  ELSE Settled("getCollaborators", Resolved, getAppResult(accountId, appId).value.collaborators)

(***************************************************************************)
(* Reading one deployment and its package history.                         *)
(***************************************************************************)
\* how the promise of getDeployment(accountId, appId, deploymentId) settles
getDeploymentResult(accountId, appId, deploymentId) ==
  IF ~deploymentChainFound(accountId, appId, deploymentId)
  THEN Rejected("getDeployment", "NotFound")
  ELSE Settled("getDeployment", Resolved, deployments[deploymentId])

\* getDeployment; the caller keeps the clone it resolved with
getDeployment(accountId, appId, deploymentId) ==
  /\ ret' = getDeploymentResult(accountId, appId, deploymentId)
  /\ held' = IF ret'.code = Resolved THEN <<ret'.value>> ELSE held
  /\ UNCHANGED <<pending, blobVars, appVars, accountVars, deploymentVars, accessKeyVars, histVars>>

\* how the promise of getPackageHistory(accountId, appId, deploymentId) settles
getPackageHistoryResult(accountId, appId, deploymentId) ==
  IF deploymentId \notin DOMAIN deployments
  THEN Rejected("getPackageHistory", "NotFound")
  ELSE Settled("getPackageHistory", Resolved, deployments[deploymentId].packageHistory)

\* how the promise of getAccessKey(accountId, accessKeyId) settles
getAccessKeyResult(accountId, accessKeyId) ==
  IF accessKeyId \notin DOMAIN accessKeyToAccountMap \/ accessKeyToAccountMap[accessKeyId] # accountId
  THEN Rejected("getAccessKey", "NotFound")
  ELSE Settled("getAccessKey", Resolved,
               IF accessKeyId \in DOMAIN accessKeys THEN accessKeys[accessKeyId] ELSE Null)

(***************************************************************************)
(* The update operations.  An update is a record that holds the properties *)
(* the caller set: a property left out (or set to undefined, which does    *)
(* not survive the JSON round trip of clone, storage.ts 174-180) is not in *)
(* its DOMAIN.  A nullable property (description) is a sequence of length  *)
(* at most one, <<>> being null.                                           *)
(***************************************************************************)
updateApp(accountId, app) ==
  /\ IF accountId \notin DOMAIN accounts \/ "id" \notin DOMAIN app \/ app.id \notin DOMAIN apps
     THEN /\ ret' = Rejected("updateApp", "NotFound")
          /\ UNCHANGED apps
     ELSE /\ apps' = [apps EXCEPT ![app.id] =
                        merge(@, IF "collaborators" \in DOMAIN app
                                 THEN removeIsCurrentAccountProperty(app)
                                 ELSE app)]
          /\ ret' = Settled("updateApp", Resolved, <<>>)
  /\ UNCHANGED <<pending, blobVars, NextIdNumber, accountToAppsMap, appToAccountMap, appToDeploymentsMap,
                 accountVars, held, deploymentVars, accessKeyVars, histVars>>

updateDeployment(accountId, appId, deployment) ==
  /\ IF \/ accountId \notin DOMAIN accounts
        \/ appId \notin DOMAIN apps
        \/ "id" \notin DOMAIN deployment
        \/ deployment.id \notin DOMAIN deployments
     THEN /\ ret' = Rejected("updateDeployment", "NotFound")
          /\ UNCHANGED deployments
     ELSE /\ deployments' = [deployments EXCEPT ![deployment.id] = merge(@, Delete(deployment, "package"))]
          /\ ret' = Settled("updateDeployment", Resolved, <<>>)
  /\ UNCHANGED <<pending, blobVars, appVars, accountVars, held, deploymentToAppMap, deploymentKeyToDeploymentMap,
                 accessKeyVars, histVars>>

\* accessKeyNameToAccountIdMap after map[name].expires = accessKey.expires
withExpires(map, name, accessKey) ==
  [map EXCEPT ![name] = IF "expires" \in DOMAIN accessKey
                        THEN Put(@, "expires", accessKey.expires)
                        ELSE Delete(@, "expires")]

updateAccessKey(accountId, accessKey) ==
  /\ IF /\ "id" \in DOMAIN accessKey
        /\ accessKey.id \in DOMAIN accessKeyToAccountMap
        /\ accessKeyToAccountMap[accessKey.id] = accountId
     THEN /\ accessKeys' = [accessKeys EXCEPT ![accessKey.id] = merge(@, accessKey)]
          /\ IF "name" \in DOMAIN accessKey /\ accessKey.name \in DOMAIN accessKeyNameToAccountIdMap
             THEN /\ accessKeyNameToAccountIdMap' =
                       withExpires(accessKeyNameToAccountIdMap, accessKey.name, accessKey)
                  /\ ret' = Settled("updateAccessKey", Resolved, <<>>)
             ELSE \* accessKeyNameToAccountIdMap[accessKey.name] is undefined: the assignment throws
                  /\ UNCHANGED accessKeyNameToAccountIdMap
                  /\ ret' = Rejected("updateAccessKey", "TypeError")
          /\ UNCHANGED <<accountToAccessKeysMap, accessKeyToAccountMap>>
     ELSE /\ ret' = Rejected("updateAccessKey", "NotFound")
          /\ UNCHANGED accessKeyVars
  /\ UNCHANGED <<pending, blobVars, appVars, accountVars, held, deploymentVars, histVars>>

(***************************************************************************)
(* SpecUpdate: one app, one deployment and the access keys of one account, *)
(* and the three update operations on them.                                *)
(***************************************************************************)
NullableFields == {"description"}

AppUpdates ==
  {[id |-> i] : i \in AppIdInputs} \cup [id : AppIdInputs, name : {"baz"}]

DeploymentUpdates ==
  {[id |-> d] : d \in DeploymentIdInputs}
    \cup [id : DeploymentIdInputs, name : {"Staging"}]
    \cup [id : DeploymentIdInputs, package : [packageHash : {"h1"}, rollout : {NullRollout}, label : {"v1"}]]

AccessKeyUpdates ==
  [id : {"k1", "k2"}, description : {<<>>, <<"work">>}]
    \cup [id : {"k1", "k2"}, name : {"n1", "n2"}, description : {<<>>}]
    \cup [id : {"k1", "k2"}, name : {"n1", "n2"}, expires : {9}]

UpdateAppStep == \E a \in OwnerInputs, u \in AppUpdates : updateApp(a, u)

UpdateDeploymentStep ==
  \E a \in OwnerInputs, i \in AppIdInputs, u \in DeploymentUpdates : updateDeployment(a, i, u)

UpdateAccessKeyStep == \E a \in OwnerInputs, u \in AccessKeyUpdates : updateAccessKey(a, u)

AddOwnAccessKeyStep == \E k \in AccessKeyInputs : addAccessKey("acc1", k)

NextUpdate ==
  \/ AddOneAppStep
  \/ AddDeploymentStep
  \/ AddOwnAccessKeyStep
  \/ UpdateAppStep
  \/ UpdateDeploymentStep
  \/ UpdateAccessKeyStep

SpecUpdate == Init /\ [][NextUpdate]_vars

(***************************************************************************)
(* The NameResolver on access keys and deployments, and on a store whose   *)
(* call fails.  NameResolver wraps any implementation of the Storage       *)
(* interface (storage.ts 220-225): besides the outcomes of this store's    *)
(* getApps, getAccessKeys and getDeployments, its operations are run on a  *)
(* store call rejected with any storage error.                             *)
(***************************************************************************)
\* reading a property of null or undefined throws
Thrown == [thrown |-> "TypeError"]

\* a scan that compares the name only
findByNameItemsNameOnly(items, name) ==
  LET Matches(k) == items[k].name = name
      Stops(k) == items[k] = Null \/ Matches(k)
  IN IF Len(items) = 0 THEN Null
     ELSE IF \A k \in 1..Len(items) : ~Stops(k) THEN Null
     ELSE LET first == CHOOSE k \in 1..Len(items) : Stops(k) /\ \A j \in 1..(k - 1) : ~Stops(j)
          IN IF items[first] = Null THEN Thrown ELSE items[first]

\* findByName on items without collaborators (the general overload): the first
\* item whose name or friendlyName is the name
findByNameItems(items, name) ==
  LET Matches(k) == \/ items[k].name = name
                    \/ ("friendlyName" \in DOMAIN items[k] /\ items[k].friendlyName = name)
      Stops(k) == items[k] = Null \/ Matches(k)
  IN IF Len(items) = 0 THEN Null
     ELSE IF \A k \in 1..Len(items) : ~Stops(k) THEN Null
     ELSE LET first == CHOOSE k \in 1..Len(items) : Stops(k) /\ \A j \in 1..(k - 1) : ~Stops(j)
          IN IF items[first] = Null THEN Thrown ELSE items[first]

\* resolveAccessKey / resolveDeployment on the outcome of the store call
resolveItemOn(op, kind, outcome, name) ==
  LET override(error) == errorMessageOverride("NotFound", DoesNotExist(kind, name), error)
  IN IF ~outcome.ok THEN RejectedWith(op, override(outcome.error))
     ELSE LET item == findByNameItems(outcome.items, name)
          IN IF item = Thrown THEN RejectedWith(op, override(storageError("TypeError")))
             ELSE IF item = Null THEN RejectedWith(op, override(storageError("NotFound")))
             ELSE Settled(op, Resolved, item)

resolveAccessKeyOn(outcome, name) == resolveItemOn("resolveAccessKey", "Access key", outcome, name)

resolveDeploymentOn(outcome, name) == resolveItemOn("resolveDeployment", "Deployment", outcome, name)

\* the three operations, given the outcome of their store call
resolveAppFrom(outcome, name) ==
  /\ ret' = resolveAppOn(outcome, name)
  /\ UNCHANGED <<pending, blobVars, appVars, accountVars, held, deploymentVars, accessKeyVars, histVars>>

resolveAccessKeyFrom(outcome, name) ==
  /\ ret' = resolveAccessKeyOn(outcome, name)
  /\ UNCHANGED <<pending, blobVars, appVars, accountVars, held, deploymentVars, accessKeyVars, histVars>>

resolveDeploymentFrom(outcome, name) ==
  /\ ret' = resolveDeploymentOn(outcome, name)
  /\ UNCHANGED <<pending, blobVars, appVars, accountVars, held, deploymentVars, accessKeyVars, histVars>>

(***************************************************************************)
(* SpecResolveErrors: a store with an app, a deployment and access keys,   *)
(* and the three resolve operations on this store and on a failing one.    *)
(***************************************************************************)
FaultCodes == {"ConnectionFailed", "NotFound", "Expired"}

\* the errors a store call may be rejected with
StoreFaults ==
  {Failure(storageError(c)) : c \in FaultCodes}
    \cup {Failure(storageErrorWith(c, "backend says no")) : c \in FaultCodes}

AppQueries == {<<"foo">>, <<"bar">>, <<"B@x", ":", "foo">>}
ItemQueries == {"n1", "Production", "Staging"}

ResolveAppStoreStep ==
  \E a \in OwnerInputs, n \in AppQueries :
     \E o \in {StoreOutcome(getAppsResult(a))} \cup StoreFaults : resolveAppFrom(o, n)

ResolveAccessKeyStoreStep ==
  \E a \in OwnerInputs, n \in ItemQueries :
     \E o \in {StoreOutcome(getAccessKeysResult(a))} \cup StoreFaults : resolveAccessKeyFrom(o, n)

ResolveDeploymentStoreStep ==
  \E a \in OwnerInputs, i \in AppIdInputs, n \in ItemQueries :
     \E o \in {StoreOutcome(getDeploymentsResult(a, i))} \cup StoreFaults : resolveDeploymentFrom(o, n)

NextResolveErrors ==
  \/ AddAnyAppStep
  \/ AddDeploymentStep
  \/ AddOwnAccessKeyStep
  \/ ResolveAppStoreStep
  \/ ResolveAccessKeyStoreStep
  \/ ResolveDeploymentStoreStep

SpecResolveErrors == Init /\ [][NextResolveErrors]_vars

(***************************************************************************)
(* Removing an app.  removeApp runs up to q.all(promises) when it is       *)
(* called: it has removed the app's deployments by then.  The callback it  *)
(* hands to .then runs later, after whatever else was called meanwhile.    *)
(***************************************************************************)
\* the deployment maps after the statements of removeDeployment (390-396)
withoutDeployment(st, appId, deploymentId) ==
  [st EXCEPT !.deploymentKeyToDeploymentMap = Delete(@, st.deployments[deploymentId].key),
             !.deployments = Delete(@, deploymentId),
             !.deploymentToAppMap = Delete(@, deploymentId),
             !.appToDeploymentsMap = [@ EXCEPT ![appId] = spliceIndexOf(@, deploymentId)]]

\* removeApp's forEach: removeDeployment on each id of the list, in order.  A
\* call that finds no such deployment adds a rejected promise; one that finds
\* a deployment of another app throws and ends the loop.
RECURSIVE removeDeploymentsOf(_, _, _)
removeDeploymentsOf(ids, appId, st) ==
  IF ids = <<>> THEN st
  ELSE IF Head(ids) \notin DOMAIN st.deployments
  THEN removeDeploymentsOf(Tail(ids), appId, [st EXCEPT !.status = "rejected"])
  ELSE IF appId # st.deploymentToAppMap[Head(ids)]
  THEN [st EXCEPT !.status = "threw"]
  ELSE removeDeploymentsOf(Tail(ids), appId, withoutDeployment(st, appId, Head(ids)))

\* removeApp as called: the guards and the removal of the deployments
removeApp(accountId, appId) ==
  /\ IF ~getAppFound(accountId, appId)
     THEN /\ ret' = Rejected("removeApp", "NotFound")
          /\ UNCHANGED <<pending, appToDeploymentsMap, deploymentVars>>
     ELSE IF accountId # appToAccountMap[appId]
     THEN /\ ret' = Rejected("removeApp", "Error")
          /\ UNCHANGED <<pending, appToDeploymentsMap, deploymentVars>>
     ELSE LET st == removeDeploymentsOf(appToDeploymentsMap[appId], appId,
                      [deployments |-> deployments,
                       deploymentToAppMap |-> deploymentToAppMap,
                       deploymentKeyToDeploymentMap |-> deploymentKeyToDeploymentMap,
                       appToDeploymentsMap |-> appToDeploymentsMap,
                       status |-> "removed"])
          IN /\ deployments' = st.deployments
             /\ deploymentToAppMap' = st.deploymentToAppMap
             /\ deploymentKeyToDeploymentMap' = st.deploymentKeyToDeploymentMap
             /\ appToDeploymentsMap' = st.appToDeploymentsMap
             /\ IF st.status = "threw"
                THEN ret' = Rejected("removeApp", "Error") /\ UNCHANGED pending
                ELSE /\ pending' = Append(pending, [op |-> "removeApp", accountId |-> accountId,
                                                    appId |-> appId, all |-> st.status])
                     /\ UNCHANGED ret
  /\ UNCHANGED <<NextIdNumber, apps, accountToAppsMap, appToAccountMap, accountVars, held, accessKeyVars,
                 blobVars, histVars>>

\* accountToAppsMap after removeAppPointer for every collaborator of the app
withoutAppPointers(map, app) ==
  [b \in DOMAIN map |->
     IF b \in {app.collaborators[e].accountId : e \in DOMAIN app.collaborators}
     THEN removeAppPointer(map, b, app.id)[b]
     ELSE map[b]]

\* the callback of the oldest call in flight: q.all(promises).then(...)
removeAppThen ==
  /\ pending # <<>>
  /\ Head(pending).op = "removeApp"
  /\ pending' = Tail(pending)
  /\ LET accountId == Head(pending).accountId
         appId == Head(pending).appId
     IN IF Head(pending).all = "rejected"
        THEN /\ ret' = Rejected("removeApp", "NotFound")
             /\ UNCHANGED appVars
        ELSE IF appId \notin DOMAIN apps
        THEN \* clone(undefined) is undefined: app.collaborators throws
             /\ appToDeploymentsMap' = Delete(appToDeploymentsMap, appId)
             /\ ret' = Rejected("removeApp", "TypeError")
             /\ UNCHANGED <<NextIdNumber, apps, accountToAppsMap, appToAccountMap>>
        ELSE /\ appToDeploymentsMap' = Delete(appToDeploymentsMap, appId)
             /\ apps' = Delete(apps, appId)
             /\ appToAccountMap' = Delete(appToAccountMap, appId)
             /\ accountToAppsMap' = [withoutAppPointers(accountToAppsMap, apps[appId])
                                       EXCEPT ![accountId] = spliceIndexOf(@, appId)]
             /\ ret' = Settled("removeApp", Resolved, <<>>)
             /\ UNCHANGED NextIdNumber
  /\ UNCHANGED <<accountVars, held, deploymentVars, accessKeyVars, blobVars, histVars>>

\* how the promise of getDeploymentInfo(deploymentKey) settles
getDeploymentInfoResult(deploymentKey) ==
  IF \/ deploymentKey \notin DOMAIN deploymentKeyToDeploymentMap
     \/ deploymentKeyToDeploymentMap[deploymentKey] \notin DOMAIN deployments
  THEN Rejected("getDeploymentInfo", "NotFound")
  ELSE LET deploymentId == deploymentKeyToDeploymentMap[deploymentKey]
       IN IF deployments[deploymentId].id \notin DOMAIN deploymentToAppMap
          THEN Rejected("getDeploymentInfo", "NotFound")
          ELSE Settled("getDeploymentInfo", Resolved,
                       [appId |-> deploymentToAppMap[deployments[deploymentId].id],
                        deploymentId |-> deploymentId])

\* how the promise of getPackageHistoryFromDeploymentKey(deploymentKey) settles
getPackageHistoryFromDeploymentKeyResult(deploymentKey) ==
  IF \/ deploymentKey \notin DOMAIN deploymentKeyToDeploymentMap
     \/ deploymentKeyToDeploymentMap[deploymentKey] \notin DOMAIN deployments
  THEN Rejected("getPackageHistoryFromDeploymentKey", "NotFound")
  ELSE Settled("getPackageHistoryFromDeploymentKey", Resolved,
               deployments[deploymentKeyToDeploymentMap[deploymentKey]].packageHistory)

(***************************************************************************)
(* SpecRemove: apps of one account, shared and handed over, their          *)
(* deployments, and removeApp with its callback.                           *)
(***************************************************************************)
RemoveAppInputs == {Id(n) : n \in 0..MaxIds}

AddNextAppStep ==
  /\ Cardinality(DOMAIN apps) < MaxApps
  /\ NextIdNumber < MaxIds
  /\ addApp("acc1", "foo")

ShareOwnAppStep ==
  \E a \in {"acc1", "acc2"}, i \in DOMAIN apps, e \in {"B@x", "c@x"} :
     addCollaborator(a, i, e) /\ UNCHANGED xferLog

HandOverOwnAppStep ==
  \E a \in {"acc1", "acc2"}, i \in DOMAIN apps, e \in {"a@x", "B@x"} :
     transferApp(a, i, e) /\ UNCHANGED xferLog

AddDeploymentToAppStep ==
  \E a \in OwnerInputs, i \in RemoveAppInputs, k \in DeploymentKeys :
     /\ Cardinality(DOMAIN deployments) < MaxDeployments
     /\ NextIdNumber < MaxIds
     /\ addDeployment(a, i, "Production", k)

RemoveAppStep ==
  /\ Len(pending) < MaxPending
  /\ \E a \in AccountIdInputs, i \in RemoveAppInputs : removeApp(a, i)

RemoveAppThenStep == removeAppThen

NextRemove ==
  \/ AddNextAppStep
  \/ ShareOwnAppStep
  \/ HandOverOwnAppStep
  \/ AddDeploymentToAppStep
  \/ RemoveAppStep
  \/ RemoveAppThenStep

SpecRemove == Init /\ [][NextRemove]_vars

(***************************************************************************)
(* The bearer-token lookup.  `now` stands for new Date().getTime().        *)
(***************************************************************************)
\* how the promise of getAccountIdFromAccessKey(accessKey) settles at time now;
\* a comparison with an undefined expires is false
getAccountIdFromAccessKeyResult(accessKey, now) ==
  IF accessKey \notin DOMAIN accessKeyNameToAccountIdMap
  THEN Rejected("getAccountIdFromAccessKey", "NotFound")
  ELSE IF /\ "expires" \in DOMAIN accessKeyNameToAccountIdMap[accessKey]
          /\ now >= accessKeyNameToAccountIdMap[accessKey].expires
  THEN Rejected("getAccountIdFromAccessKey", "Expired")
  ELSE Settled("getAccountIdFromAccessKey", Resolved,
               accessKeyNameToAccountIdMap[accessKey].accountId)

getAccountIdFromAccessKey(accessKey, now) ==
  /\ ret' = getAccountIdFromAccessKeyResult(accessKey, now)
  /\ UNCHANGED <<pending, blobVars, appVars, accountVars, held, deploymentVars, accessKeyVars, histVars>>

(***************************************************************************)
(* SpecKeys: the access keys of one account, added, updated and removed,   *)
(* and the lookup by name at some time.                                    *)
(***************************************************************************)
AccessKeyNames == {"n1", "n2"}
Times == {0, 5, 7, 9}

RemoveOwnAccessKeyStep == \E k \in {"k1", "k2"} : removeAccessKey("acc1", k)

GetAccountIdFromAccessKeyStep ==
  \E n \in AccessKeyNames, t \in Times : getAccountIdFromAccessKey(n, t)

NextKeys ==
  \/ AddOwnAccessKeyStep
  \/ UpdateAccessKeyStep
  \/ RemoveOwnAccessKeyStep
  \/ GetAccountIdFromAccessKeyStep

SpecKeys == Init /\ [][NextKeys]_vars

(***************************************************************************)
(* Blobs, the endpoint that serves them, and dropAll.  _blobServerPromise  *)
(* is unset until getBlobServer (677-699) starts the express server; the   *)
(* promise is kept after the server was closed.  addBlob is taken with the *)
(* stream read to its end: data is all that the stream delivered.          *)
(***************************************************************************)
addBlob(blobId, data) ==
  /\ blobs' = Put(blobs, blobId, data)
  /\ ret' = Settled("addBlob", Resolved, blobId)
  /\ UNCHANGED <<pending, blobServer, appVars, accountVars, held, deploymentVars, accessKeyVars, histVars>>

removeBlob(blobId) ==
  /\ blobs' = Delete(blobs, blobId)
  /\ ret' = Settled("removeBlob", Resolved, <<>>)
  /\ UNCHANGED <<pending, blobServer, appVars, accountVars, held, deploymentVars, accessKeyVars, histVars>>

\* _blobServerPromise after getBlobServer()
getBlobServer == IF blobServer = "unset" THEN "listening" ELSE blobServer

\* server.address() + "/" + blobId: address() is an object while the server
\* listens and null once it is closed
getBlobUrl(blobId) ==
  /\ blobServer' = getBlobServer
  /\ ret' = Settled("getBlobUrl", Resolved,
                    (IF getBlobServer = "listening" THEN "[object Object]" ELSE "null") \o "/" \o blobId)
  /\ UNCHANGED <<pending, blobs, appVars, accountVars, held, deploymentVars, accessKeyVars, histVars>>

\* what GET /:blobId of the endpoint answers (681-688); nothing answers when
\* no server listens
blobServed(blobId) ==
  IF blobServer # "listening" THEN [status |-> 0, body |-> ""]
  ELSE IF blobId \in DOMAIN blobs /\ blobs[blobId] # "" THEN [status |-> 200, body |-> blobs[blobId]]
  ELSE [status |-> 404, body |-> ""]

\* dropAll closes the server when one was started, and nothing else.
\* server.close hands its callback an error when the server is not running.
dropAll ==
  /\ IF blobServer = "unset"
     THEN ret' = Settled("dropAll", Resolved, <<>>) /\ UNCHANGED blobServer
     ELSE IF blobServer = "listening"
     THEN ret' = Settled("dropAll", Resolved, <<>>) /\ blobServer' = "closed"
     ELSE ret' = Rejected("dropAll", "Error") /\ UNCHANGED blobServer
  /\ UNCHANGED <<pending, blobs, appVars, accountVars, held, deploymentVars, accessKeyVars, histVars>>

(***************************************************************************)
(* SpecDrop: a store that is filled, served and dropped.                   *)
(***************************************************************************)
BlobIds == {"b1", "b2"}
BlobData == {"", "d1"}

AddBlobStep == \E b \in BlobIds, d \in BlobData : addBlob(b, d)

RemoveBlobStep == \E b \in BlobIds : removeBlob(b)

GetBlobUrlStep == \E b \in BlobIds : getBlobUrl(b)

DropAllStep == dropAll

NextDrop ==
  \/ AddOneAppStep
  \/ AddDeploymentStep
  \/ AddOwnAccessKeyStep
  \/ AddBlobStep
  \/ RemoveBlobStep
  \/ GetBlobUrlStep
  \/ DropAllStep

SpecDrop == Init /\ [][NextDrop]_vars

(***************************************************************************)
(* The ownership operations with their asynchronous gap.  addCollaborator, *)
(* removeCollaborator and transferApp read the app with getApp when they   *)
(* are called and do the rest in the callback handed to .then, which runs  *)
(* in a later turn on the clone that getApp resolved with.  The callbacks  *)
(* run in the order of the calls.  The operators below work on a record    *)
(* st of the two maps the callbacks write, apps and accountToAppsMap, so   *)
(* that the same code gives the result of a callback that runs late and of *)
(* an operation that runs alone.                                           *)
(***************************************************************************)
\* code is the way the operation's promise settles
OwnershipStore == [apps |-> apps, accountToAppsMap |-> accountToAppsMap, code |-> Resolved]

\* updateApp(accountId, app) at the end of a callback
updateAppIn(st, accountId, app) ==
  IF accountId \notin DOMAIN accounts \/ app.id \notin DOMAIN st.apps
  THEN [st EXCEPT !.code = "NotFound"]
  ELSE [st EXCEPT !.apps[app.id] = merge(@, removeIsCurrentAccountProperty(app)),
                  !.code = Resolved]

\* the callback of addCollaborator (270-286) on the app it was handed
addCollaboratorThen(st, accountId, app, email) ==
  IF isCollaborator(app.collaborators, email) \/ isOwner(app.collaborators, email)
  THEN [st EXCEPT !.code = "AlreadyExists"]
  ELSE IF ~Truthy(emailToAccountMap, toLowerCase(email))
  THEN [st EXCEPT !.code = "NotFound"]
  ELSE IF toLowerCase(email) \notin DOMAIN emailToAccountMap
  THEN [st EXCEPT !.code = "TypeError"]
  ELSE LET target == emailToAccountMap[toLowerCase(email)]
           stored == accounts[target].email
       IN updateAppIn([st EXCEPT !.accountToAppsMap = addAppPointer(@, target, app.id)],
                      accountId,
                      [app EXCEPT !.collaborators =
                         Put(@, stored, [accountId |-> target, permission |-> "Collaborator"])])

\* the callback of removeCollaborator (296-308)
removeCollaboratorThen(st, accountId, app, email) ==
  IF isOwner(app.collaborators, email)
  THEN [st EXCEPT !.code = "AlreadyExists"]
  ELSE IF ~isCollaborator(app.collaborators, email) \/ ~Truthy(emailToAccountMap, toLowerCase(email))
  THEN [st EXCEPT !.code = "NotFound"]
  ELSE IF toLowerCase(email) \notin DOMAIN emailToAccountMap
  THEN [st EXCEPT !.code = "TypeError"]
  ELSE updateAppIn([st EXCEPT !.accountToAppsMap =
                      removeAppPointer(@, emailToAccountMap[toLowerCase(email)], app.id)],
                   accountId,
                   [app EXCEPT !.collaborators = Delete(@, email)])

\* the callback of transferApp (239-262)
transferAppThen(st, accountId, app, email) ==
  IF ~Truthy(emailToAccountMap, toLowerCase(email))
  THEN [st EXCEPT !.code = "NotFound"]
  ELSE IF toLowerCase(email) \notin DOMAIN emailToAccountMap
  THEN [st EXCEPT !.code = "TypeError"]
  ELSE LET target == emailToAccountMap[toLowerCase(email)]
           stored == accounts[target].email
           requesterEmail == accounts[accountId].email
       IN IF isOwner(app.collaborators, stored)
          THEN [st EXCEPT !.code = "AlreadyExists"]
          ELSE IF requesterEmail \notin DOMAIN app.collaborators
          THEN [st EXCEPT !.code = "TypeError"]
          ELSE LET demoted == [app.collaborators EXCEPT ![requesterEmail].permission = "Collaborator"]
               IN IF isCollaborator(demoted, stored)
                  THEN updateAppIn(st, accountId,
                                   [app EXCEPT !.collaborators =
                                      [demoted EXCEPT ![stored].permission = "Owner"]])
                  ELSE updateAppIn([st EXCEPT !.accountToAppsMap = addAppPointer(@, target, app.id)],
                                   accountId,
                                   [app EXCEPT !.collaborators =
                                      Put(demoted, stored, [permission |-> "Owner", accountId |-> target])])

\* the callback of the call c, a record of the operation, its arguments and
\* the app that getApp resolved with
ownershipThen(st, c) ==
  CASE c.op = "addCollaborator" -> addCollaboratorThen(st, c.accountId, c.app, c.email)
    [] c.op = "removeCollaborator" -> removeCollaboratorThen(st, c.accountId, c.app, c.email)
    [] c.op = "transferApp" -> transferAppThen(st, c.accountId, c.app, c.email)

\* the call is rejected before any callback is queued: the denylist of
\* addCollaborator and transferApp, and getApp's guard
ownershipRefused(st, c) ==
  IF c.op # "removeCollaborator" /\ isPrototypePollutionKey(c.email) THEN "Invalid"
  ELSE IF c.accountId \notin DOMAIN accounts \/ c.appId \notin DOMAIN st.apps THEN "NotFound"
  ELSE Resolved

\* the operation run alone: the callback runs on what getApp reads now
ownershipAlone(st, c) ==
  IF ownershipRefused(st, c) # Resolved
  THEN [st EXCEPT !.code = ownershipRefused(st, c)]
  ELSE ownershipThen(st, [c EXCEPT !.app = addIsCurrentAccountProperty(st.apps[c.appId], c.accountId)])

\* A call of one of the three operations.  The entry put in pending holds
\* what the callback's closure holds (the arguments and the app), and, as
\* history, the two maps at the time of the call (before) and the calls
\* then in flight (ahead), each without its own ahead but with their number
\* (depth).
ownershipCall(op, accountId, appId, email) ==
  LET c == [op |-> op, accountId |-> accountId, appId |-> appId, email |-> email]
      st == OwnershipStore
  IN /\ IF ownershipRefused(st, c) # Resolved
        THEN /\ ret' = Rejected(op, ownershipRefused(st, c))
             /\ UNCHANGED pending
        ELSE /\ pending' = Append(pending,
                              [op |-> op, accountId |-> accountId, appId |-> appId, email |-> email,
                               app |-> getAppValue(accountId, appId),
                               before |-> st, depth |-> Len(pending),
                               ahead |-> [k \in 1..Len(pending) |-> Delete(pending[k], "ahead")]])
             /\ UNCHANGED ret
     /\ UNCHANGED <<appVars, accountVars, held, deploymentVars, accessKeyVars, blobVars, histVars>>

\* the oldest callback in flight runs
ownershipCallback ==
  /\ pending # <<>>
  /\ Head(pending).op \in {"addCollaborator", "removeCollaborator", "transferApp"}
  /\ LET r == ownershipThen(OwnershipStore, Head(pending))
     IN /\ apps' = r.apps
        /\ accountToAppsMap' = r.accountToAppsMap
        /\ ret' = Settled(Head(pending).op, r.code, <<>>)
  /\ pending' = Tail(pending)
  /\ UNCHANGED <<NextIdNumber, appToAccountMap, appToDeploymentsMap, accountVars, held, deploymentVars,
                 accessKeyVars, blobVars, histVars>>

(***************************************************************************)
(* SpecRace: one app and the ownership operations that its creator calls   *)
(* on it, at most MaxPending of them in flight together.                   *)
(***************************************************************************)
OwnershipOps == {"addCollaborator", "removeCollaborator", "transferApp"}
RaceEmails == {"B@x", "c@x"}

OwnershipCallStep ==
  /\ Len(pending) < MaxPending
  /\ \E op \in OwnershipOps, i \in DOMAIN apps, e \in RaceEmails :
        ownershipCall(op, "acc1", i, e)

OwnershipCallbackStep == ownershipCallback

NextRace ==
  \/ AddOneAppStep
  \/ OwnershipCallStep
  \/ OwnershipCallbackStep

SpecRace == Init /\ [][NextRace]_vars

(***************************************************************************)
(* SpecIndex: up to MaxNamedApps apps, shared, handed over and removed,    *)
(* each operation called when the one before it has completed.             *)
(***************************************************************************)
Callers == {"acc1", "acc2"}
CallerEmails == {RegisteredEmail[a] : a \in Callers}

CreateAppStep ==
  /\ pending = <<>>
  /\ Cardinality(DOMAIN apps) < MaxNamedApps
  /\ NextIdNumber < MaxIds
  /\ \E a \in Callers : addApp(a, "foo")

ShareStep ==
  /\ pending = <<>>
  /\ \E a \in Callers, i \in DOMAIN apps, e \in CallerEmails :
        addCollaborator(a, i, e) /\ UNCHANGED xferLog

UnshareStep ==
  /\ pending = <<>>
  /\ \E a \in Callers, i \in DOMAIN apps, e \in CallerEmails :
        removeCollaborator(a, i, e) /\ UNCHANGED xferLog

HandOverStep ==
  /\ pending = <<>>
  /\ \E a \in Callers, i \in DOMAIN apps, e \in CallerEmails :
        transferApp(a, i, e) /\ UNCHANGED xferLog

RemoveStep ==
  /\ pending = <<>>
  /\ \E a \in Callers, i \in RemoveAppInputs : removeApp(a, i)

RemoveThenStep == removeAppThen

NextIndex ==
  \/ CreateAppStep
  \/ ShareStep
  \/ UnshareStep
  \/ HandOverStep
  \/ RemoveStep
  \/ RemoveThenStep

SpecIndex == Init /\ [][NextIndex]_vars

(***************************************************************************)
(* The removals statement by statement.  Each operator gives the stores    *)
(* that a removal goes through, one after each statement that writes, the  *)
(* last one being the store the removal leaves.                            *)
(***************************************************************************)
Store ==
  [apps |-> apps, accountToAppsMap |-> accountToAppsMap, appToAccountMap |-> appToAccountMap,
   appToDeploymentsMap |-> appToDeploymentsMap, deployments |-> deployments,
   deploymentToAppMap |-> deploymentToAppMap,
   deploymentKeyToDeploymentMap |-> deploymentKeyToDeploymentMap,
   accessKeys |-> accessKeys, accountToAccessKeysMap |-> accountToAccessKeysMap,
   accessKeyToAccountMap |-> accessKeyToAccountMap,
   accessKeyNameToAccountIdMap |-> accessKeyNameToAccountIdMap]

\* removeDeployment past its guards: lines 392, 393, 394, 395-396
removeDeploymentStatements(st, appId, deploymentId) ==
  LET s1 == [st EXCEPT !.deploymentKeyToDeploymentMap = Delete(@, st.deployments[deploymentId].key)]
      s2 == [s1 EXCEPT !.deployments = Delete(@, deploymentId)]
      s3 == [s2 EXCEPT !.deploymentToAppMap = Delete(@, deploymentId)]
      s4 == [s3 EXCEPT !.appToDeploymentsMap[appId] = spliceIndexOf(@, deploymentId)]
  IN <<s1, s2, s3, s4>>

\* removeAccessKey past its guard: lines 569, 570, 571, 573-578
removeAccessKeyStatements(st, accountId, accessKeyId) ==
  LET s1 == [st EXCEPT !.accessKeyNameToAccountIdMap = Delete(@, st.accessKeys[accessKeyId].name)]
      s2 == [s1 EXCEPT !.accessKeys = Delete(@, accessKeyId)]
      s3 == [s2 EXCEPT !.accessKeyToAccountMap = Delete(@, accessKeyId)]
      s4 == [s3 EXCEPT !.accountToAccessKeysMap[accountId] =
                          IF indexOf(@, accessKeyId) > 0 THEN RemoveAt(@, indexOf(@, accessKeyId)) ELSE @]
  IN <<s1, s2, s3, s4>>

\* removeApp's forEach (197-199) on deployments that are all the app's own
RECURSIVE removeAppStatements(_, _, _)
removeAppStatements(st, appId, ids) ==
  IF ids = <<>> THEN <<>>
  ELSE LET one == removeDeploymentStatements(st, appId, Head(ids))
       IN one \o removeAppStatements(one[Len(one)], appId, Tail(ids))

\* removeApp's callback on a stored app: lines 202, 206-208 (the loop over the
\* collaborators as a whole), 209, 211, 212-213
removeAppThenStatements(st, accountId, appId) ==
  LET s1 == [st EXCEPT !.appToDeploymentsMap = Delete(@, appId)]
      s2 == [s1 EXCEPT !.accountToAppsMap = withoutAppPointers(@, st.apps[appId])]
      s3 == [s2 EXCEPT !.apps = Delete(@, appId)]
      s4 == [s3 EXCEPT !.appToAccountMap = Delete(@, appId)]
      s5 == [s4 EXCEPT !.accountToAppsMap[accountId] = spliceIndexOf(@, appId)]
  IN <<s1, s2, s3, s4, s5>>

(***************************************************************************)
(* SpecFailSafe: apps, deployments and access keys of one account, and     *)
(* the three removals.                                                     *)
(***************************************************************************)
RemoveOwnDeploymentStep ==
  \E i \in RemoveAppInputs, d \in RemoveAppInputs : removeDeployment("acc1", i, d)

NextFailSafe ==
  \/ AddNextAppStep
  \/ AddDeploymentToAppStep
  \/ AddOwnAccessKeyStep
  \/ RemoveOwnDeploymentStep
  \/ RemoveOwnAccessKeyStep
  \/ RemoveAppStep
  \/ RemoveAppThenStep

SpecFailSafe == Init /\ [][NextFailSafe]_vars

(***************************************************************************)
(* SpecDeploymentKeys: the deployments of one app, added, updated (their   *)
(* name or their key) and removed.                                         *)
(***************************************************************************)
KeyUpdates ==
  [id : RemoveAppInputs, name : {"Staging"}] \cup [id : RemoveAppInputs, key : DeploymentKeys]

AddKeyedDeploymentStep ==
  \E i \in AppIdInputs, k \in DeploymentKeys :
     /\ NextIdNumber < MaxIds
     /\ addDeployment("acc1", i, "Production", k)

UpdateKeyStep == \E i \in AppIdInputs, u \in KeyUpdates : updateDeployment("acc1", i, u)

NextDeploymentKeys ==
  \/ AddOneAppStep
  \/ AddKeyedDeploymentStep
  \/ UpdateKeyStep
  \/ RemoveOwnDeploymentStep

SpecDeploymentKeys == Init /\ [][NextDeploymentKeys]_vars

(***************************************************************************)
(* SpecMatch: apps named foo, shared and handed over between two callers,  *)
(* and resolveApp with bare, owner-qualified and malformed names.          *)
(***************************************************************************)
MatchQueries ==
  {<<"foo">>, <<"bar">>, <<":", "foo">>, <<"foo", ":">>,
   <<"a@x", ":", "foo">>, <<"B@x", ":", "foo">>, <<"z@x", ":", "foo">>,
   <<"a@x", ":", "bar">>, <<"constructor", ":", "foo">>,
   <<"a@x", ":", "c@x", ":", "foo">>, <<":", ":", "foo">>}

MatchStep == \E a \in Callers, n \in MatchQueries : resolveApp(a, n)

NextMatch == CreateAppStep \/ ShareStep \/ HandOverStep \/ MatchStep

SpecMatch == Init /\ [][NextMatch]_vars

(***************************************************************************)
(* SpecItems: the access keys of one account, with friendly names, and the *)
(* deployments of its app, and resolveAccessKey and resolveDeployment.     *)
(***************************************************************************)
FriendlyKeyInputs ==
  [id : {"k1", "k2"}, name : {"n1", "n2"}, friendlyName : {"n2", "My key"}, expires : {5}]

DeploymentNames == {"Production", "Staging"}

ItemNames == {"n1", "n2", "My key", "Production", "Staging", "none"}

\* how the promise of resolveAccessKey(accountId, name) settles
resolveAccessKeyResult(accountId, name) ==
  resolveAccessKeyOn(StoreOutcome(getAccessKeysResult(accountId)), name)

resolveAccessKey(accountId, name) ==
  /\ ret' = resolveAccessKeyResult(accountId, name)
  /\ UNCHANGED <<pending, blobVars, appVars, accountVars, held, deploymentVars, accessKeyVars, histVars>>

\* how the promise of resolveDeployment(accountId, appId, name) settles
resolveDeploymentResult(accountId, appId, name) ==
  resolveDeploymentOn(StoreOutcome(getDeploymentsResult(accountId, appId)), name)

resolveDeployment(accountId, appId, name) ==
  /\ ret' = resolveDeploymentResult(accountId, appId, name)
  /\ UNCHANGED <<pending, blobVars, appVars, accountVars, held, deploymentVars, accessKeyVars, histVars>>

AddFriendlyKeyStep == \E k \in FriendlyKeyInputs : addAccessKey("acc1", k)

AddNamedDeploymentStep ==
  \E i \in DOMAIN apps, n \in DeploymentNames, k \in DeploymentKeys :
     NextIdNumber < MaxIds /\ addDeployment("acc1", i, n, k)

ResolveAccessKeyStep == \E a \in OwnerInputs, n \in ItemNames : resolveAccessKey(a, n)

ResolveDeploymentStep ==
  \E a \in OwnerInputs, i \in AppIdInputs, n \in ItemNames : resolveDeployment(a, i, n)

NextItems ==
  \/ AddOneAppStep
  \/ AddNamedDeploymentStep
  \/ AddFriendlyKeyStep
  \/ RemoveOwnAccessKeyStep
  \/ ResolveAccessKeyStep
  \/ ResolveDeploymentStep

SpecItems == Init /\ [][NextItems]_vars

(***************************************************************************)
(* SpecAnnotation: one app, shared and handed over between two accounts,   *)
(* read by getApp and getApps, and updated with what getApp returned and   *)
(* with collaborator maps whose entries carry isCurrentAccount.            *)
(***************************************************************************)
Flagged(accountId, permission, flag) ==
  [accountId |-> accountId, permission |-> permission, isCurrentAccount |-> flag]

\* collaborator maps handed to updateApp, every entry with a flag of its own
FlaggedCollaborators ==
  {("a@x" :> Flagged("acc1", "Owner", b)) : b \in BOOLEAN}
    \cup {("a@x" :> Flagged("acc1", "Owner", b)) @@ ("B@x" :> Flagged("acc2", "Collaborator", c)) :
            b \in BOOLEAN, c \in BOOLEAN}

GetOneAppStep == \E a \in OwnerInputs \cup Callers, i \in AppIdInputs : getApp(a, i)

\* the app as getApp returned it to the caller, renamed
UpdateReturnedAppStep ==
  \E a \in Callers, i \in DOMAIN apps, n \in AppNames :
     updateApp(a, [getAppValue(a, i) EXCEPT !.name = n])

UpdateCollaboratorsStep ==
  \E a \in Callers, i \in AppIdInputs, c \in FlaggedCollaborators :
     updateApp(a, [id |-> i, collaborators |-> c])

NextAnnotation ==
  \/ AddOneAppStep
  \/ ShareStep
  \/ UnshareStep
  \/ HandOverStep
  \/ GetOneAppStep
  \/ GetAppsStep
  \/ UpdateReturnedAppStep
  \/ UpdateCollaboratorsStep

SpecAnnotation == Init /\ [][NextAnnotation]_vars

(***************************************************************************)
(* SpecCurrentPackage: one deployment, the operations on its package       *)
(* history, and updateDeployment with a deployment that getDeployment      *)
(* returned earlier.  The caller holds one returned deployment at a time;  *)
(* getDeployment changes nothing in the store, so every value returned     *)
(* before is the one held in some behaviour with the same store states.    *)
(***************************************************************************)
PlainPackages == [packageHash : {"h1"}, rollout : {NullRollout}]

PlainHistories ==
  {NoHistory, Array(<<[packageHash |-> "h2", rollout |-> NullRollout, label |-> "v1"]>>)}

AddOwnDeploymentStep ==
  /\ Cardinality(DOMAIN deployments) < MaxDeployments
  /\ NextIdNumber < MaxIds
  /\ \E i \in AppIdInputs : addDeployment("acc1", i, "Production", "key1")

\* commitPackage while the history is shorter than MaxCommits packages and
\* fewer than MaxCommits were committed since it was last cleared or replaced
CommitPlainPackageStep ==
  \E d \in DOMAIN deployments, p \in PlainPackages :
     /\ Len(deployments[d].packageHistory) < MaxCommits
     /\ Len(commitLog[d].given) < MaxCommits
     /\ commitPackage("acc1", Id(0), d, p)

ClearOwnPackageHistoryStep ==
  \E d \in DeploymentIdInputs : clearPackageHistory("acc1", Id(0), d)

UpdateOwnPackageHistoryStep ==
  \E d \in DeploymentIdInputs, h \in PlainHistories : updatePackageHistory("acc1", Id(0), d, h)

GetDeploymentStep ==
  \E a \in OwnerInputs, d \in DeploymentIdInputs : getDeployment(a, Id(0), d)

\* updateDeployment with the deployment held, as it was returned
UpdateHeldDeploymentStep ==
  /\ held # <<>>
  /\ \E a \in OwnerInputs : updateDeployment(a, Id(0), held[1])

NextCurrentPackage ==
  \/ AddOneAppStep
  \/ AddOwnDeploymentStep
  \/ CommitPlainPackageStep
  \/ ClearOwnPackageHistoryStep
  \/ UpdateOwnPackageHistoryStep
  \/ GetDeploymentStep
  \/ UpdateHeldDeploymentStep

SpecCurrentPackage == Init /\ [][NextCurrentPackage]_vars

(***************************************************************************)
(* The claims.                                                             *)
(***************************************************************************)
storeVars == <<appVars, accountVars, deploymentVars, accessKeyVars>>

OwnerEmails(app) ==
  {e \in DOMAIN app.collaborators : app.collaborators[e].permission = "Owner"}

\* C1: after any sequence of addApp, addCollaborator, removeCollaborator and
\* transferApp calls, every stored app has exactly one collaborator entry whose
\* permission is Owner.
C1_ExactlyOneOwner ==
  \A i \in DOMAIN apps : Cardinality(OwnerEmails(apps[i])) = 1

\* C2: for an app whose Owner is account A, once transferApp to B's email has
\* succeeded and a later transferApp to A's email has succeeded, A's entry is
\* Owner and B's entry is Collaborator.
C2_TransferBackRestores ==
  \A i \in DOMAIN apps :
    \A A \in AccountIds : \A B \in AccountIds \ {A} :
      ( /\ Len(xferLog[i]) = 2
        /\ xferLog[i][1].ownersBefore = {A}
        /\ xferLog[i][1].to = B
        /\ xferLog[i][2].to = A )
      => /\ A \in Holders(apps[i], "Owner")
         /\ A \notin Holders(apps[i], "Collaborator")
         /\ B \in Holders(apps[i], "Collaborator")
         /\ B \notin Holders(apps[i], "Owner")

\* The apps named "foo" that getApps lists for the account.
VisibleFoo(a) ==
  {app \in {getAppsValue(a)[k] : k \in 1..Len(getAppsValue(a))} : app.name = "foo"}

\* Two of them have one Owner each, and the two Owners differ.
TwoFooOfDifferentOwners(a) ==
  \E x \in VisibleFoo(a), y \in VisibleFoo(a) :
     /\ x.id # y.id
     /\ Cardinality(OwnerEmails(x)) = 1
     /\ Cardinality(OwnerEmails(y)) = 1
     /\ Holders(x, "Owner") # Holders(y, "Owner")

\* resolveApp(a, "<email>:foo") returns an app named "foo" whose Owner is email,
\* for the Owner of every visible such app that has one Owner
QualifiedFooResolves(a) ==
  \A x \in VisibleFoo(a) : \A email \in OwnerEmails(x) :
     Cardinality(OwnerEmails(x)) = 1 =>
       LET r == resolveAppResult(a, <<email, ":", "foo">>)
       IN /\ r.code = Resolved
          /\ r.value.name = "foo"
          /\ email \in OwnerEmails(r.value)
          /\ (\A y \in VisibleFoo(a) : email \in OwnerEmails(y) => y.id = x.id) => r.value.id = x.id

\* C3 as stated: with two visible apps named "foo" whose Owners are different
\* accounts, resolveApp(accountId, "foo") fails with NotFound and
\* resolveApp(accountId, "<ownerEmail>:foo") returns the app whose Owner is <ownerEmail>.
C3_BareNameAlwaysAmbiguous ==
  \A a \in AccountIds :
    TwoFooOfDifferentOwners(a) =>
      /\ resolveAppResult(a, <<"foo">>).code = "NotFound"
      /\ QualifiedFooResolves(a)

\* C3 amended: with two visible apps named "foo" whose Owners are different
\* accounts, resolveApp(accountId, "foo") fails with NotFound when the calling
\* account is the Owner of no visible app named "foo", and otherwise returns a
\* visible app named "foo" whose Owner is the calling account;
\* resolveApp(accountId, "<ownerEmail>:foo") returns the app whose Owner is <ownerEmail>.
C3_BareNameAmbiguousUnlessOwned ==
  \A a \in AccountIds :
    TwoFooOfDifferentOwners(a) =>
      /\ LET r == resolveAppResult(a, <<"foo">>)
         IN IF \E x \in VisibleFoo(a) : a \in Holders(x, "Owner")
            THEN /\ r.code = Resolved
                 /\ r.value.id \in {x.id : x \in VisibleFoo(a)}
                 /\ a \in Holders(r.value, "Owner")
            ELSE r.code = "NotFound"
      /\ QualifiedFooResolves(a)

\* resolveApp by bare name has returned the caller's own app although another
\* account owns a second visible app of that name
C3_Witness ==
  \E a \in AccountIds :
    /\ TwoFooOfDifferentOwners(a)
    /\ ret = resolveAppResult(a, <<"foo">>)
    /\ ret.code = Resolved
    /\ a \in Holders(ret.value, "Owner")

ExpectedLabels == <<"v1", "v2", "v3", "v4", "v5">>

\* C4: n packages committed one after another to a deployment whose history was
\* empty leave a history of exactly those n packages in commit order (each as
\* committed but for its label and, on all but the last, the rollout that
\* commitPackage resets), labelled v1..vn; each call returned the package with
\* the label it was given; the current package is the last one committed.
C4_CommitsLabelInOrder ==
  \A d \in DOMAIN deployments :
    commitLog[d].clean =>
      LET history == deployments[d].packageHistory
          given == commitLog[d].given
          returned == commitLog[d].returned
          n == Len(given)
      IN /\ Len(history) = n
         /\ \A k \in 1..n :
              /\ history[k].packageHash = given[k].packageHash
              /\ history[k].label = ExpectedLabels[k]
              /\ history[k].rollout = IF k = n THEN given[k].rollout ELSE NullRollout
              /\ returned[k].label = ExpectedLabels[k]
              /\ returned[k].packageHash = given[k].packageHash
              /\ returned[k].rollout = given[k].rollout
         /\ IF n = 0 THEN "package" \notin DOMAIN deployments[d]
            ELSE /\ "package" \in DOMAIN deployments[d]
                 /\ deployments[d].package = history[n]
                 /\ deployments[d].package.packageHash = given[n].packageHash

\* three packages have been committed in a row, the last call just returned
C4_Witness ==
  \E d \in DOMAIN deployments :
    /\ commitLog[d].clean
    /\ Len(commitLog[d].given) = 3
    /\ ret.op = "commitPackage"
    /\ ret.code = Resolved
    /\ ret.value.label = "v3"

\* C5: after any sequence of commitPackage, updatePackageHistory and
\* clearPackageHistory calls, no entry of a package history other than the last
\* has a non-null rollout.
C5_RolloutOnlyOnLast ==
  \A d \in DOMAIN deployments :
    \A k \in 1..(Len(deployments[d].packageHistory) - 1) :
       deployments[d].packageHistory[k].rollout = NullRollout

\* C6: updatePackageHistory with an empty or absent history fails with Invalid
\* and leaves the package history and the current package (and the rest of the
\* store) as they were.
C6_EmptyHistoryIsInvalid ==
  [][ ret'.op = "updatePackageHistory" =>
        \A a \in OwnerInputs, i \in AppIdInputs, d \in DeploymentIdInputs :
          \A h \in {NoHistory, Array(<<>>)} :
             updatePackageHistory(a, i, d, h) =>
               /\ ret'.code = "Invalid"
               /\ UNCHANGED storeVars ]_vars

\* updatePackageHistory was refused on a store that holds a deployment with history
C6_Witness ==
  /\ ret.op = "updatePackageHistory"
  /\ ret.code = "Invalid"
  /\ \E d \in DOMAIN deployments :
       /\ Len(deployments[d].packageHistory) > 0
       /\ "package" \in DOMAIN deployments[d]

\* C7: removeCollaborator with the email of the app's Owner fails with
\* AlreadyExists and changes nothing; with the email of a Collaborator it
\* succeeds, removes exactly that entry and removes the app from that account's
\* app list, leaving every other entry and list as it was; with any other email
\* it fails with NotFound (and changes nothing).
C7_RemoveCollaborator ==
  [][ ret'.op = "removeCollaborator" =>
      \A a \in AccountIds, i \in DOMAIN apps, e \in EmailInputs :
        removeCollaborator(a, i, e) =>
          LET entries == apps[i].collaborators
          IN IF e \in DOMAIN entries /\ entries[e].permission = "Owner"
             THEN ret'.code = "AlreadyExists" /\ UNCHANGED storeVars
             ELSE IF e \in DOMAIN entries /\ entries[e].permission = "Collaborator"
             THEN /\ ret'.code = Resolved
                  /\ DOMAIN apps' = DOMAIN apps
                  /\ \A j \in DOMAIN apps \ {i} : apps'[j] = apps[j]
                  /\ apps'[i].name = apps[i].name
                  /\ DOMAIN apps'[i].collaborators = DOMAIN entries \ {e}
                  /\ \A x \in DOMAIN entries \ {e} : apps'[i].collaborators[x] = entries[x]
                  /\ \A b \in AccountIds :
                       LET Keeps(j) == j # i
                       IN accountToAppsMap'[b] =
                            IF b = entries[e].accountId
                            THEN SelectSeq(accountToAppsMap[b], Keeps)
                            ELSE accountToAppsMap[b]
                  /\ UNCHANGED <<accountVars, held, deploymentVars, accessKeyVars,
                                 NextIdNumber, appToAccountMap, appToDeploymentsMap>>
             ELSE ret'.code = "NotFound" /\ UNCHANGED storeVars ]_vars

\* a Collaborator has just been removed and the app is left with its Owner alone
C7_Witness ==
  /\ ret.op = "removeCollaborator"
  /\ ret.code = Resolved
  /\ \E i \in DOMAIN apps :
       /\ Cardinality(DOMAIN apps[i].collaborators) = 1
       /\ Cardinality(OwnerEmails(apps[i])) = 1
       /\ Cardinality({b \in AccountIds : indexOf(accountToAppsMap[b], i) > 0}) = 1

\* C8: addCollaborator and transferApp with an email equal to "__proto__",
\* "constructor" or "prototype" fail with Invalid for every accountId and appId
\* and leave the store unchanged.
C8_PollutionKeysRejected ==
  [][ ret'.op \in {"addCollaborator", "transferApp"} =>
      \A a \in AccountIdInputs, i \in AppIdInputs :
        \A e \in {"__proto__", "constructor", "prototype"} :
           (addCollaborator(a, i, e) \/ transferApp(a, i, e)) =>
              /\ ret'.code = "Invalid"
              /\ UNCHANGED storeVars ]_vars

\* a denylisted email has just been refused on a store that holds an app
C8_Witness ==
  /\ ret.op \in {"addCollaborator", "transferApp"}
  /\ ret.code = "Invalid"
  /\ apps # <<>>

\* C9: every operation that keys the collaborators mapping by an email,
\* removeCollaborator included, rejects "__proto__", "constructor" and
\* "prototype" with Invalid (stated for the calls that name an existing
\* account and an existing app, where the lookups keyed by the email take place).
C9_EveryEmailKeyedOperationRejects ==
  [][ ret'.op \in {"addCollaborator", "transferApp", "removeCollaborator"} =>
      \A a \in AccountIds, i \in DOMAIN apps :
        \A e \in {"__proto__", "constructor", "prototype"} :
           (addCollaborator(a, i, e) \/ transferApp(a, i, e) \/ removeCollaborator(a, i, e)) =>
              ret'.code = "Invalid" ]_vars

\* C10: getApps and getAccessKeys of an existing account, and getDeployments of
\* an existing app, resolve (with an empty sequence when there are no children);
\* with an account id or app id that does not exist they fail with NotFound.
C10_CollectionsOfExistingParents ==
  /\ \A a \in AccountIdInputs :
       IF a \in DOMAIN accounts
       THEN /\ getAppsResult(a).code = Resolved
            /\ getAccessKeysResult(a).code = Resolved
            /\ (\A k \in DOMAIN accessKeys : accessKeyToAccountMap[k] # a)
                  => getAccessKeysResult(a).value = <<>>
       ELSE /\ getAppsResult(a).code = "NotFound"
            /\ getAccessKeysResult(a).code = "NotFound"
  /\ \A a \in AccountIdInputs, i \in AppIdInputs :
       IF a \in DOMAIN accounts /\ i \in DOMAIN apps
       THEN getDeploymentsResult(a, i).code = Resolved
       ELSE getDeploymentsResult(a, i).code = "NotFound"

\* the account has no collaborator entry on the stored app
NoEntryOn(a, i) == \A e \in DOMAIN apps[i].collaborators : apps[i].collaborators[e].accountId # a

\* C11: an app-scoped operation called with an existing account and an existing
\* app on which the account has no collaborator entry fails with NotFound and
\* changes no stored state (the reads getApp, getCollaborators and
\* getDeployments in every state; addCollaborator, removeCollaborator and
\* transferApp in every step).
C11_StrangerGetsNotFound ==
  /\ [](\A a \in AccountIds, i \in DOMAIN apps :
          NoEntryOn(a, i) =>
            /\ getAppResult(a, i).code = "NotFound"
            /\ getCollaboratorsResult(a, i).code = "NotFound"
            /\ getDeploymentsResult(a, i).code = "NotFound")
  /\ [][ ret'.op \in {"addCollaborator", "removeCollaborator", "transferApp"} =>
         \A a \in AccountIds, i \in DOMAIN apps, e \in EmailInputs \ PollutionKeys :
           (NoEntryOn(a, i) /\ (addCollaborator(a, i, e) \/ removeCollaborator(a, i, e) \/ transferApp(a, i, e))) =>
              /\ ret'.code = "NotFound"
              /\ UNCHANGED storeVars ]_vars

\* the id chain names a missing account, a missing app, or a stored deployment of another app
BrokenChain(a, i, d) ==
  \/ a \notin DOMAIN accounts
  \/ i \notin DOMAIN apps
  \/ (d \in DOMAIN deployments /\ deploymentToAppMap[d] # i)

\* C12: a deployment-scoped operation called with a deploymentId that exists but
\* does not belong to the given appId, or with an accountId or appId that does
\* not exist, fails with NotFound and changes no stored state (the reads
\* getDeployment and getPackageHistory in every state; commitPackage,
\* clearPackageHistory and updatePackageHistory with a non-empty history in
\* every step).
C12_BrokenChainGetsNotFound ==
  /\ [](\A a \in OwnerInputs, i \in AppIdInputs, d \in DeploymentIdInputs :
          BrokenChain(a, i, d) =>
            /\ getDeploymentResult(a, i, d).code = "NotFound"
            /\ getPackageHistoryResult(a, i, d).code = "NotFound")
  /\ [][ ret'.op \in {"commitPackage", "clearPackageHistory", "updatePackageHistory"} =>
         \A a \in OwnerInputs, i \in AppIdInputs, d \in DeploymentIdInputs :
           BrokenChain(a, i, d) =>
             /\ (\A p \in PackageInputs :
                   commitPackage(a, i, d, p) => ret'.code = "NotFound" /\ UNCHANGED storeVars)
             /\ (clearPackageHistory(a, i, d) => ret'.code = "NotFound" /\ UNCHANGED storeVars)
             /\ (\A h \in HistoryInputs \ {NoHistory, Array(<<>>)} :
                   updatePackageHistory(a, i, d, h) => ret'.code = "NotFound" /\ UNCHANGED storeVars) ]_vars

\* C13: no operation that returns an entity or an identifier resolves with an
\* empty, null or absent value: addApp, addDeployment and addAccessKey (also for
\* an id the account already holds) resolve with a non-empty id, and getApp,
\* getDeployment and getAccessKey resolve with an entity, or they fail.
C13_NeverResolvesEmpty ==
  /\ (ret.code = Resolved /\ ret.op \in {"addDeployment", "addAccessKey"}) => ret.value # ""
  /\ (ret.code = Resolved /\ ret.op = "addApp") => ret.value.id # ""
  /\ \A a \in AccountIdInputs :
       /\ \A k \in {"k1", "k2"} :
            getAccessKeyResult(a, k).code = Resolved => getAccessKeyResult(a, k).value # Null
       /\ \A i \in AppIdInputs :
            /\ getAppResult(a, i).code = Resolved => getAppResult(a, i).value.id # ""
            /\ \A d \in DeploymentIdInputs :
                 getDeploymentResult(a, i, d).code = Resolved => getDeploymentResult(a, i, d).value.id # ""

\* new is old with the three-state merge of update applied: a property the
\* update leaves out keeps its value, a null one is unset, any other takes the
\* supplied value
ThreeStateMerged(old, update, new) ==
  /\ DOMAIN new \subseteq DOMAIN old \cup DOMAIN update
  /\ \A f \in DOMAIN old \cup DOMAIN update :
       IF f \notin DOMAIN update THEN f \in DOMAIN new /\ new[f] = old[f]
       ELSE IF f \in NullableFields /\ update[f] = <<>> THEN f \in DOMAIN new => new[f] = <<>>
       ELSE f \in DOMAIN new /\ new[f] = update[f]

\* C14: updateApp, updateDeployment and updateAccessKey on a stored entity of
\* the account succeed and leave the entity as the three-state merge of the
\* update into it; no other stored entity is changed (for an access key, no
\* entry of the name index but the one of the key's own name).
C14_UpdatesMergeThreeState ==
  [][ ret'.op \in {"updateApp", "updateDeployment", "updateAccessKey"} =>
      /\ \A u \in AppUpdates :
           (u.id \in DOMAIN apps /\ updateApp("acc1", u)) =>
              /\ ret'.code = Resolved
              /\ ThreeStateMerged(apps[u.id], u, apps'[u.id])
              /\ \A j \in DOMAIN apps \ {u.id} : apps'[j] = apps[j]
              /\ UNCHANGED <<NextIdNumber, accountToAppsMap, appToAccountMap, appToDeploymentsMap,
                             accountVars, held, deploymentVars, accessKeyVars>>
      /\ \A i \in DOMAIN apps : \A u \in DeploymentUpdates :
           (u.id \in DOMAIN deployments /\ deploymentToAppMap[u.id] = i /\ updateDeployment("acc1", i, u)) =>
              /\ ret'.code = Resolved
              /\ ThreeStateMerged(deployments[u.id], u, deployments'[u.id])
              /\ \A j \in DOMAIN deployments \ {u.id} : deployments'[j] = deployments[j]
              /\ UNCHANGED <<appVars, accountVars, held, deploymentToAppMap, deploymentKeyToDeploymentMap,
                             accessKeyVars>>
      /\ \A u \in AccessKeyUpdates :
           (u.id \in DOMAIN accessKeys /\ accessKeyToAccountMap[u.id] = "acc1" /\ updateAccessKey("acc1", u)) =>
              /\ ret'.code = Resolved
              /\ ThreeStateMerged(accessKeys[u.id], u, accessKeys'[u.id])
              /\ \A j \in DOMAIN accessKeys \ {u.id} : accessKeys'[j] = accessKeys[j]
              /\ DOMAIN accessKeyNameToAccountIdMap' = DOMAIN accessKeyNameToAccountIdMap
              /\ \A n \in DOMAIN accessKeyNameToAccountIdMap \ {accessKeys[u.id].name, accessKeys'[u.id].name} :
                   accessKeyNameToAccountIdMap'[n] = accessKeyNameToAccountIdMap[n]
              /\ UNCHANGED <<appVars, accountVars, held, deploymentVars, accountToAccessKeysMap,
                             accessKeyToAccountMap>> ]_vars

\* the registered accounts the email identifies, compared without regard to case
IdentifiedBy(e) == {b \in AccountIds : toLowerCase(RegisteredEmail[b]) = toLowerCase(e)}

\* the accounts that hold an entry on the app
EntryHolders(app) == Holders(app, "Owner") \cup Holders(app, "Collaborator")

\* C15: addCollaborator fails with AlreadyExists whenever the account the email
\* identifies (case-insensitively) already has an Owner or Collaborator entry on
\* the app, fails with NotFound when the email identifies no registered account
\* (both without a change), and otherwise adds exactly one Collaborator entry
\* for that account, leaves every existing entry as it was and adds the app to
\* that account's app list.
C15_AddCollaborator ==
  [][ ret'.op = "addCollaborator" =>
      \A a \in AccountIds, i \in DOMAIN apps, e \in EmailInputs \ PollutionKeys :
        addCollaborator(a, i, e) =>
          LET entries == apps[i].collaborators
          IN IF IdentifiedBy(e) \cap EntryHolders(apps[i]) # {}
             THEN ret'.code = "AlreadyExists" /\ UNCHANGED storeVars
             ELSE IF IdentifiedBy(e) = {}
             THEN ret'.code = "NotFound" /\ UNCHANGED storeVars
             ELSE /\ ret'.code = Resolved
                  /\ Cardinality(DOMAIN apps'[i].collaborators) = Cardinality(DOMAIN entries) + 1
                  /\ \A x \in DOMAIN entries :
                       x \in DOMAIN apps'[i].collaborators /\ apps'[i].collaborators[x] = entries[x]
                  /\ \A x \in DOMAIN apps'[i].collaborators \ DOMAIN entries :
                       /\ apps'[i].collaborators[x].permission = "Collaborator"
                       /\ apps'[i].collaborators[x].accountId \in IdentifiedBy(e)
                  /\ \A b \in IdentifiedBy(e) : indexOf(accountToAppsMap'[b], i) > 0 ]_vars

\* C16: transferApp fails with NotFound when the new owner's email identifies no
\* registered account and with AlreadyExists when that account is already the
\* Owner, in both cases without a change; otherwise the new owner's entry is
\* Owner afterwards, the requester's entry is Collaborator, every other entry is
\* as it was, and the app is in the new owner's app list.
C16_TransferApp ==
  [][ ret'.op = "transferApp" =>
      \A a \in AccountIds, i \in DOMAIN apps, e \in EmailInputs \ PollutionKeys :
        transferApp(a, i, e) =>
          LET entries == apps[i].collaborators
          IN IF IdentifiedBy(e) = {}
             THEN ret'.code = "NotFound" /\ UNCHANGED storeVars
             ELSE IF IdentifiedBy(e) \cap Holders(apps[i], "Owner") # {}
             THEN ret'.code = "AlreadyExists" /\ UNCHANGED storeVars
             ELSE /\ ret'.code = Resolved
                  /\ Holders(apps'[i], "Owner") \cap IdentifiedBy(e) # {}
                  /\ a \in Holders(apps'[i], "Collaborator")
                  /\ \A x \in DOMAIN entries :
                       entries[x].accountId \notin IdentifiedBy(e) \cup {a} =>
                         x \in DOMAIN apps'[i].collaborators /\ apps'[i].collaborators[x] = entries[x]
                  /\ \A x \in DOMAIN apps'[i].collaborators :
                       apps'[i].collaborators[x].accountId \notin IdentifiedBy(e) \cup {a} =>
                         x \in DOMAIN entries
                  /\ \A b \in IdentifiedBy(e) : indexOf(accountToAppsMap'[b], i) > 0 ]_vars

\* what a resolve operation is rejected with when the store call was rejected
\* with fault: the same code; the same error when the code is not NotFound,
\* and the text naming the entity kind and the query as message when it is
PropagatesFault(fault, kind, name) ==
  /\ ret'.code = fault.error.code
  /\ IF fault.error.code # "NotFound"
     THEN /\ DOMAIN ret'.value = DOMAIN fault.error \ {"code"}
          /\ \A f \in DOMAIN ret'.value : ret'.value[f] = fault.error[f]
     ELSE ret'.value = [message |-> kind \o " \"" \o name \o "\" does not exist."]

\* no item of the list the store resolved with has the name
NoneNamed(outcome, name) ==
  outcome.ok /\ \A k \in 1..Len(outcome.items) : outcome.items[k] # Null /\ outcome.items[k].name # name

\* a failure from zero matches: NotFound with the message naming kind and query
FailsNotFound(kind, name) ==
  /\ ret'.code = "NotFound"
  /\ ret'.value = [message |-> kind \o " \"" \o name \o "\" does not exist."]

C18_RemoveAppCascades ==
  /\ \A d \in DOMAIN deployments :
       d \in DOMAIN deploymentToAppMap => deploymentToAppMap[d] \in DOMAIN apps
  /\ \A k \in DeploymentKeys :
       /\ getDeploymentInfoResult(k).code = Resolved =>
            getDeploymentInfoResult(k).value.appId \in DOMAIN apps
       /\ getPackageHistoryFromDeploymentKeyResult(k).code = Resolved =>
            \A d \in DOMAIN deployments :
               (deployments[d].key = k /\ d \in DOMAIN deploymentToAppMap) =>
                  deploymentToAppMap[d] \in DOMAIN apps
  /\ \A b \in DOMAIN accountToAppsMap :
       \A k \in 1..Len(accountToAppsMap[b]) : accountToAppsMap[b][k] \in DOMAIN apps

\* the stored access keys named name
KeysNamed(name) ==
  {k \in DOMAIN accessKeys : "name" \in DOMAIN accessKeys[k] /\ accessKeys[k].name = name}

\* C19: at all times each access-key name identifies at most one stored access
\* key and getAccountIdFromAccessKey(name), asked before the key expires,
\* resolves to the account that owns that key; addAccessKey with a name that is
\* in use never changes which account the name resolves to, and removing one
\* key never makes the name of another stored key unresolvable.
C19_NamesIdentifyOneKey ==
  /\ [](\A n \in {"n1", "n2"} :
          /\ Cardinality(KeysNamed(n)) <= 1
          /\ \A k \in KeysNamed(n) :
               getAccountIdFromAccessKeyResult(n, 0) =
                 Settled("getAccountIdFromAccessKey", Resolved, accessKeyToAccountMap[k]))
  /\ [][/\ ret'.op = "addAccessKey" =>
             \A n \in {"n1", "n2"} :
                KeysNamed(n) # {} =>
                   getAccountIdFromAccessKeyResult(n, 0)' = getAccountIdFromAccessKeyResult(n, 0)
        /\ ret'.op = "removeAccessKey" =>
             \A n \in {"n1", "n2"} :
                (KeysNamed(n)' # {} /\ getAccountIdFromAccessKeyResult(n, 0).code = Resolved) =>
                   getAccountIdFromAccessKeyResult(n, 0)'.code = Resolved]_vars

\* C20: after any sequence of addAccessKey, updateAccessKey and
\* removeAccessKey, getAccountIdFromAccessKey(name) at time now fails with
\* NotFound when no stored key has that name; when a stored key has it, the
\* call fails with Expired exactly when now is at or past the expires stored
\* on that key, and otherwise resolves with the id of the account owning it.
C20_LookupFollowsStoredKey ==
  [][ret'.op = "getAccountIdFromAccessKey" =>
       \A n \in AccessKeyNames, t \in Times :
          getAccountIdFromAccessKey(n, t) =>
             IF KeysNamed(n) = {}
             THEN ret'.code = "NotFound"
             ELSE \E k \in KeysNamed(n) :
                     IF "expires" \in DOMAIN accessKeys[k] /\ t >= accessKeys[k].expires
                     THEN ret'.code = "Expired"
                     ELSE ret'.code = Resolved /\ ret'.value = accessKeyToAccountMap[k]]_vars

\* nothing that was stored can be read back
NothingRetrievable ==
  /\ \A a \in AccountIdInputs :
       /\ getAppsResult(a).code = Resolved => getAppsResult(a).value = <<>>
       /\ getAccessKeysResult(a).code = Resolved => getAccessKeysResult(a).value = <<>>
       /\ \A i \in AppIdInputs :
            /\ getAppResult(a, i).code # Resolved
            /\ getDeploymentsResult(a, i).code # Resolved
            /\ \A d \in DeploymentIdInputs : getDeploymentResult(a, i, d).code # Resolved
       /\ \A k \in {"k1", "k2"} : getAccessKeyResult(a, k).code # Resolved
  /\ \A k \in DeploymentKeys : getDeploymentInfoResult(k).code # Resolved
  /\ \A n \in AccessKeyNames : getAccountIdFromAccessKeyResult(n, 0).code # Resolved
  /\ \A b \in BlobIds : blobServed(b).status # 200

\* C21: dropAll releases all held state and is idempotent.  Every call of
\* dropAll succeeds, whether or not the blob-serving endpoint had been started
\* and whether or not dropAll was called before, and after it no app,
\* deployment, access key or blob that was stored is retrievable.
C21_DropAllReleasesAndRepeats ==
  [][ret'.op = "dropAll" => (dropAll => (ret'.code = Resolved /\ NothingRetrievable'))]_vars

\* the two maps of st after the calls a and b ran alone, a first
OneAfterTheOther(st, a, b) ==
  ownershipAlone([ownershipAlone(st, a) EXCEPT !.code = Resolved], b)

SameMaps(s, t) == s.apps = t.apps /\ s.accountToAppsMap = t.accountToAppsMap

\* C22: when two of addCollaborator, removeCollaborator and transferApp on
\* the same app are in flight together, each having read the app before the
\* other's callback wrote it, then once the second callback has run the
\* collaborators mapping and the account-to-app lists are those of running
\* the two operations one after the other, in one order or the other.
C22_RacingOwnershipSerializes ==
  [][(/\ ownershipCallback
      /\ Len(Head(pending).ahead) = 1
      /\ Head(pending).ahead[1].depth = 0
      /\ Head(pending).ahead[1].appId = Head(pending).appId)
     => LET second == Head(pending)
            first == second.ahead[1]
        IN \/ SameMaps(OwnershipStore', OneAfterTheOther(first.before, first, second))
           \/ SameMaps(OwnershipStore', OneAfterTheOther(first.before, second, first))]_vars

\* C23: in every state reached after completed addApp, addCollaborator,
\* removeCollaborator, transferApp and removeApp operations, an account's app
\* list contains an app id if and only if that app is stored and has a
\* collaborator entry whose accountId is that account, and no list contains
\* an id twice.
C23_IndexAgreesWithCollaborators ==
  pending = <<>> =>
    \A b \in DOMAIN accountToAppsMap :
       /\ \A i \in RemoveAppInputs :
            (indexOf(accountToAppsMap[b], i) # 0) <=>
               (i \in DOMAIN apps /\ b \in EntryHolders(apps[i]))
       /\ \A j, k \in 1..Len(accountToAppsMap[b]) :
            accountToAppsMap[b][j] = accountToAppsMap[b][k] => j = k

\* C24: removeApp(accountId, appId) removes only that app from the
\* account-to-apps index: every other app that an account had in its app list
\* before the call is still in that account's list when the call has succeeded.
C24_RemoveAppKeepsOtherApps ==
  [][(removeAppThen /\ ret'.code = Resolved) =>
       \A b \in DOMAIN accountToAppsMap, i \in RemoveAppInputs :
          (i # Head(pending).appId /\ indexOf(accountToAppsMap[b], i) # 0) =>
             indexOf(accountToAppsMap'[b], i) # 0]_vars

\* C25: removeApp succeeds exactly when the calling account is the app's
\* current Owner.  A call by an account that holds the Owner entry of a stored
\* app is not refused, and the call's callback resolves if and only if the
\* caller holds the Owner entry; so after transferApp the new Owner can
\* remove the app and the former Owner cannot.
C25_OnlyTheOwnerRemoves ==
  [][/\ \A a \in Callers, i \in DOMAIN apps :
          (removeApp(a, i) /\ a \in Holders(apps[i], "Owner")) => pending' # pending
     /\ (removeAppThen /\ Head(pending).appId \in DOMAIN apps) =>
          (ret'.code = Resolved <=>
             Head(pending).accountId \in Holders(apps[Head(pending).appId], "Owner"))]_vars

\* no child list or lookup entry of st points at a record that is not stored,
\* and no stored deployment belongs to an app that is not stored
FailSafe(st) ==
  /\ \A i \in DOMAIN st.appToDeploymentsMap :
       \A k \in 1..Len(st.appToDeploymentsMap[i]) :
          st.appToDeploymentsMap[i][k] \in DOMAIN st.deployments
  /\ \A key \in DOMAIN st.deploymentKeyToDeploymentMap :
       st.deploymentKeyToDeploymentMap[key] \in DOMAIN st.deployments
  /\ \A d \in DOMAIN st.deployments :
       d \in DOMAIN st.deploymentToAppMap => st.deploymentToAppMap[d] \in DOMAIN st.apps
  /\ \A b \in DOMAIN st.accountToAppsMap :
       \A k \in 1..Len(st.accountToAppsMap[b]) : st.accountToAppsMap[b][k] \in DOMAIN st.apps
  /\ \A a \in DOMAIN st.accountToAccessKeysMap :
       \A k \in 1..Len(st.accountToAccessKeysMap[a]) :
          st.accountToAccessKeysMap[a][k] \in DOMAIN st.accessKeys
  /\ \A n \in DOMAIN st.accessKeyNameToAccountIdMap :
       \E k \in DOMAIN st.accessKeys : st.accessKeys[k].name = n

AllFailSafe(stores) == \A k \in 1..Len(stores) : FailSafe(stores[k])

\* C26: removals follow the fail-safe order at every intermediate step.  From
\* a store in which no child list or lookup entry points at a missing record,
\* removeDeployment, removeAccessKey, and removeApp with its callback go only
\* through stores of which the same is true.
C26_RemovalsAreFailSafe ==
  [][FailSafe(Store) =>
       /\ \A i \in RemoveAppInputs, d \in RemoveAppInputs :
            (removeDeployment("acc1", i, d) /\ ret'.code = Resolved) =>
               AllFailSafe(removeDeploymentStatements(Store, i, d))
       /\ \A k \in {"k1", "k2"} :
            (removeAccessKey("acc1", k) /\ ret'.code = Resolved) =>
               AllFailSafe(removeAccessKeyStatements(Store, "acc1", k))
       /\ \A a \in AccountIdInputs, i \in RemoveAppInputs :
            (removeApp(a, i) /\ pending' # pending) =>
               AllFailSafe(removeAppStatements(Store, i, appToDeploymentsMap[i]))
       /\ (removeAppThen /\ ret'.code = Resolved) =>
            AllFailSafe(removeAppThenStatements(Store, Head(pending).accountId, Head(pending).appId))]_vars

\* C27: after any sequence of addDeployment, updateDeployment and
\* removeDeployment every stored deployment is reachable by its current key:
\* getDeploymentInfo(d.key) resolves with d's id and the id of the app that
\* owns d, no two stored deployments share a key, and a key of no stored
\* deployment fails with NotFound.
C27_DeploymentsReachableByKey ==
  /\ \A d \in DOMAIN deployments :
       getDeploymentInfoResult(deployments[d].key) =
         Settled("getDeploymentInfo", Resolved,
                 [appId |-> deploymentToAppMap[d], deploymentId |-> d])
  /\ \A d, e \in DOMAIN deployments : deployments[d].key = deployments[e].key => d = e
  /\ \A k \in DeploymentKeys :
       (\A d \in DOMAIN deployments : deployments[d].key # k) =>
          getDeploymentInfoResult(k).code = "NotFound"

\* the positions of the colons in a name given as its pieces
Colons(name) == {k \in 1..Len(name) : name[k] = ":"}

Before(name, k) == Join(SubSeq(name, 1, k - 1))

After(name, k) == Join(SubSeq(name, k + 1, Len(name)))

\* the apps of list with this name
Named(list, name) == {list[k] : k \in {j \in 1..Len(list) : list[j].name = name}}

\* those of them on which ownerEmail's entry is Owner
OwnedBy(list, ownerEmail, name) ==
  {app \in Named(list, name) :
     /\ ownerEmail \in DOMAIN app.collaborators
     /\ app.collaborators[ownerEmail].permission = "Owner"}

\* those of them on which an entry is flagged isCurrentAccount and is Owner
OwnedByCaller(list, name) ==
  {app \in Named(list, name) :
     \E e \in DOMAIN app.collaborators :
        /\ "isCurrentAccount" \in DOMAIN app.collaborators[e]
        /\ app.collaborators[e].isCurrentAccount
        /\ app.collaborators[e].permission = "Owner"}

\* the matches of a bare name: the single app of that name, else the caller's own
BareMatches(list, name) ==
  IF Cardinality(Named(list, name)) = 1 THEN Named(list, name) ELSE OwnedByCaller(list, name)

\* the matches of a query: an owner email is supplied by a query with one
\* colon and some text before it
AppMatches(list, query) ==
  IF Cardinality(Colons(query)) > 1 THEN {}
  ELSE IF Cardinality(Colons(query)) = 1 /\ Head(query) # ":"
  THEN LET k == CHOOSE c \in Colons(query) : TRUE
       IN OwnedBy(list, Before(query, k), After(query, k))
  ELSE IF Cardinality(Colons(query)) = 1
  THEN BareMatches(list, Join(Tail(query)))
  ELSE BareMatches(list, Join(query))

\* C28: resolveApp finds no match for a query with more than one colon; for
\* "<ownerEmail>:<name>" it returns an app named <name> on which
\* collaborators[ownerEmail] is Owner, else no match; for a bare name (and for
\* a name after a colon with no owner email before it) it returns the single
\* app of that name if exactly one exists, otherwise the one of that name
\* flagged isCurrentAccount and Owner for the caller, else no match.
C28_AppNameMatching ==
  [][ret'.op = "resolveApp" =>
       \A a \in Callers, n \in MatchQueries :
          resolveApp(a, n) =>
             IF AppMatches(getAppsValue(a), n) = {}
             THEN ret'.code = "NotFound"
             ELSE ret'.code = Resolved /\ ret'.value \in AppMatches(getAppsValue(a), n)]_vars

\* a caller was handed the only app named foo that it can see, an app it does not own
C28_Witness ==
  /\ ret.op = "resolveApp"
  /\ ret.code = Resolved
  /\ \E a \in Callers :
       /\ Len(getAppsValue(a)) = 1
       /\ ret.value = getAppsValue(a)[1]
       /\ a \notin Holders(ret.value, "Owner")

\* the positions of list whose item has this name, or this friendly name if wanted
Positions(list, name, friendly) ==
  {k \in 1..Len(list) : list[k].name = name \/ (friendly /\ list[k].friendlyName = name)}

Lowest(positions) == CHOOSE k \in positions : \A j \in positions : k <= j

\* what the claim says the scan of list for name settles with
FirstOf(op, list, name, friendly) ==
  IF Positions(list, name, friendly) = {}
  THEN ret'.op = op /\ ret'.code = "NotFound"
  ELSE ret' = Settled(op, Resolved, list[Lowest(Positions(list, name, friendly))])

\* C29: resolveAccessKey returns the first access key, in the order
\* getAccessKeys returns them, whose name or friendlyName is the query, and
\* resolveDeployment the first deployment, in the order getDeployments returns
\* them, whose name is the query; each fails with NotFound when no item
\* matches, the collection is empty or the store has no such collection.
C29_FirstItemByName ==
  [][/\ ret'.op = "resolveAccessKey" =>
          \A a \in OwnerInputs, n \in ItemNames :
             resolveAccessKey(a, n) =>
                IF getAccessKeysFound(a)
                THEN FirstOf("resolveAccessKey", getAccessKeysResult(a).value, n, TRUE)
                ELSE ret'.code = "NotFound"
     /\ ret'.op = "resolveDeployment" =>
          \A a \in OwnerInputs, i \in AppIdInputs, n \in ItemNames :
             resolveDeployment(a, i, n) =>
                IF getDeploymentsFound(a, i)
                THEN FirstOf("resolveDeployment", getDeploymentsResult(a, i).value, n, FALSE)
                ELSE ret'.code = "NotFound"]_vars

\* the account has two keys, the second named as the first is friendly-named,
\* and that name was resolved to the first
C29_Witness ==
  /\ ret.op = "resolveAccessKey"
  /\ ret.code = Resolved
  /\ getAccessKeysFound("acc1")
  /\ LET list == getAccessKeysResult("acc1").value
     IN /\ Len(list) = 2
        /\ list[1].friendlyName = list[2].name
        /\ list[1].name # list[2].name
        /\ ret.value = list[1]

\* the entry has the property isCurrentAccount, whatever its value
CarriesFlag(entry) == "isCurrentAccount" \in DOMAIN entry

\* the entry is flagged as the current account's
IsFlagged(entry) == CarriesFlag(entry) /\ entry.isCurrentAccount

\* C30 as stated: no stored collaborator entry carries isCurrentAccount, and an
\* app returned by getApp or getApps for account X carries it on exactly the
\* entries whose accountId is X.
C30_FlagNeverStored ==
  /\ [](\A i \in DOMAIN apps : \A e \in DOMAIN apps[i].collaborators :
           ~CarriesFlag(apps[i].collaborators[e]))
  /\ [][/\ ret'.op = "getApp" /\ ret'.code = Resolved =>
             \A a \in AccountIdInputs, i \in AppIdInputs :
                getApp(a, i) =>
                   \A e \in DOMAIN ret'.value.collaborators :
                      CarriesFlag(ret'.value.collaborators[e])
                        <=> ret'.value.collaborators[e].accountId = a
        /\ ret'.op = "getApps" /\ ret'.code = Resolved =>
             \A a \in AccountIdInputs :
                getApps(a) =>
                   \A k \in 1..Len(ret'.value) : \A e \in DOMAIN ret'.value[k].collaborators :
                      CarriesFlag(ret'.value[k].collaborators[e])
                        <=> ret'.value[k].collaborators[e].accountId = a]_vars

\* What holds of the flag's value: no stored collaborator entry has a true
\* isCurrentAccount, and an app returned by getApp or getApps for account X
\* has isCurrentAccount true on exactly the entries whose accountId is X.
TrueFlagNeverStored ==
  /\ [](\A i \in DOMAIN apps : \A e \in DOMAIN apps[i].collaborators :
           ~IsFlagged(apps[i].collaborators[e]))
  /\ [][/\ ret'.op = "getApp" /\ ret'.code = Resolved =>
             \A a \in AccountIdInputs, i \in AppIdInputs :
                getApp(a, i) =>
                   \A e \in DOMAIN ret'.value.collaborators :
                      IsFlagged(ret'.value.collaborators[e])
                        <=> ret'.value.collaborators[e].accountId = a
        /\ ret'.op = "getApps" /\ ret'.code = Resolved =>
             \A a \in AccountIdInputs :
                getApps(a) =>
                   \A k \in 1..Len(ret'.value) : \A e \in DOMAIN ret'.value[k].collaborators :
                      IsFlagged(ret'.value[k].collaborators[e])
                        <=> ret'.value[k].collaborators[e].accountId = a]_vars

\* the current package of the deployment is the last of its history, or absent
\* with an empty history
CurrentIsLast(deployment) ==
  IF deployment.packageHistory = <<>>
  THEN "package" \notin DOMAIN deployment
  ELSE /\ "package" \in DOMAIN deployment
       /\ deployment.package = deployment.packageHistory[Len(deployment.packageHistory)]

\* the current package of a deployment, <<>> when it has none
CurrentPackage(deployment) ==
  IF "package" \in DOMAIN deployment THEN <<deployment.package>> ELSE <<>>

\* C31: after any sequence of commitPackage, clearPackageHistory,
\* updatePackageHistory and updateDeployment calls, updateDeployment given a
\* deployment that getDeployment returned earlier, the current package of every
\* deployment is the last element of its package history, and is absent when
\* the history is empty; updateDeployment changes neither the current package
\* nor the package history.
C31_CurrentPackageIsLastOfHistory ==
  /\ [](\A d \in DOMAIN deployments : CurrentIsLast(deployments[d]))
  /\ [][ret'.op = "updateDeployment" =>
          \A d \in DOMAIN deployments :
             /\ d \in DOMAIN deployments'
             /\ deployments'[d].packageHistory = deployments[d].packageHistory
             /\ CurrentPackage(deployments'[d]) = CurrentPackage(deployments[d])]_vars

====
